---- MODULE Spec2Model ----
(***************************************************************************)
(* RRG dashboard (rrg_bundle): the fetch orchestrator of app.py (the       *)
(* cache-or-fetch-with-retry-and-fallback policy of _fetch_one, the pooled *)
(* pass and the sequential timeout retry of main), the disk cache of       *)
(* rrg/cache.py, and the generation-keyed in-memory caches of main.        *)
(*                                                                         *)
(* Time is counted in units of one cache TTL period: cfg's                 *)
(* default_cache_ttl_hours * 3600 seconds is ttl_seconds == 1 unit.        *)
(* Disk writes are taken to succeed (set_df does not raise).               *)
(***************************************************************************)
EXTENDS Integers, Sequences, FiniteSets, TLC

\* ------------------------------------------------------------------ bounds
\* the clock stops at MaxNow; a session stores at most MaxGen fetches under
\* the full quote client and MaxGenLite under the reduced one
MaxNow == 2
MaxGen == 1
MaxGenLite == 2

\* ------------------------------------------------------- program constants
retry_attempts == 3
safe_workers == 3
ttl_seconds == 1
MinAlignedBars == 25
default_bars == 90
rrg_ratio_len == 70
rrg_mom_len == 50
rrg_mom_lookback == 20
rrg_tail_len == 20

\* ---------------------------------------------------------------- messages
\* str(e) of the errors the quote client raises, and the fixed texts of app.py
MsgTimeout == "Timeout while fetching"
MsgConnection == "Connection to remote host was lost."
MsgInvalid == "Invalid symbol"
MsgEmpty == ""
MsgUnknown == "Unknown error"
MsgUnavailable == "Symbol is unavailable on TradingView feed"
MsgMissingClose == "Missing 'close' column"
\* Python's None in an Optional[str] position
NoneMsg == "<None>"

\* the characters of each message (TLC has no view of a string's characters)
Chars(m) ==
    CASE m = MsgTimeout ->
        <<"T", "i", "m", "e", "o", "u", "t", " ", "w", "h", "i", "l", "e", " ",
          "f", "e", "t", "c", "h", "i", "n", "g">>
      [] m = MsgConnection ->
        <<"C", "o", "n", "n", "e", "c", "t", "i", "o", "n", " ", "t", "o", " ",
          "r", "e", "m", "o", "t", "e", " ", "h", "o", "s", "t", " ", "w", "a",
          "s", " ", "l", "o", "s", "t", ".">>
      [] m = MsgInvalid ->
        <<"I", "n", "v", "a", "l", "i", "d", " ", "s", "y", "m", "b", "o", "l">>
      [] m = MsgEmpty ->
        <<>>
      [] m = MsgUnknown ->
        <<"U", "n", "k", "n", "o", "w", "n", " ", "e", "r", "r", "o", "r">>
      [] m = MsgUnavailable ->
        <<"S", "y", "m", "b", "o", "l", " ", "i", "s", " ", "u", "n", "a", "v",
          "a", "i", "l", "a", "b", "l", "e", " ", "o", "n", " ", "T", "r", "a",
          "d", "i", "n", "g", "V", "i", "e", "w", " ", "f", "e", "e", "d">>
      [] m = MsgMissingClose ->
        <<"M", "i", "s", "s", "i", "n", "g", " ", "'", "c", "l", "o", "s", "e",
          "'", " ", "c", "o", "l", "u", "m", "n">>

UpperLetters ==
    <<"A", "B", "C", "D", "E", "F", "G", "H", "I", "J", "K", "L", "M",
      "N", "O", "P", "Q", "R", "S", "T", "U", "V", "W", "X", "Y", "Z">>
LowerLetters ==
    <<"a", "b", "c", "d", "e", "f", "g", "h", "i", "j", "k", "l", "m",
      "n", "o", "p", "q", "r", "s", "t", "u", "v", "w", "x", "y", "z">>

\* str.lower(), character by character
LowerChar(c) ==
    IF \E i \in 1..Len(UpperLetters) : UpperLetters[i] = c
    THEN LowerLetters[CHOOSE i \in 1..Len(UpperLetters) : UpperLetters[i] = c]
    ELSE c
Lower(s) == [i \in 1..Len(s) |-> LowerChar(s[i])]

\* Python's `needle in hay` on strings
Contains(hay, needle) ==
    \E i \in 0..(Len(hay) - Len(needle)) :
        \A k \in 1..Len(needle) : hay[i + k] = needle[k]

KwTimeout == <<"t", "i", "m", "e", "o", "u", "t">>
KwTimedOut == <<"t", "i", "m", "e", "d", " ", "o", "u", "t">>
KwTempor == <<"t", "e", "m", "p", "o", "r">>
KwConnection == <<"c", "o", "n", "n", "e", "c", "t", "i", "o", "n">>
KwTimeoutWhileFetching ==
    <<"t", "i", "m", "e", "o", "u", "t", " ", "w", "h", "i", "l", "e", " ",
      "f", "e", "t", "c", "h", "i", "n", "g">>

RetryKeywords == {KwTimeout, KwTimedOut, KwTempor, KwConnection}

Messages ==
    {MsgTimeout, MsgConnection, MsgInvalid, MsgEmpty, MsgUnknown,
     MsgUnavailable, MsgMissingClose}

\* the messages m with any(k in m.lower() for k in [...]), line 658
RetryableMessages ==
    {m \in Messages : \E k \in RetryKeywords : Contains(Lower(Chars(m)), k)}
\* the messages m with "timeout while fetching" in m.lower(), line 1840
TimeoutMessages ==
    {m \in Messages : Contains(Lower(Chars(m)), KwTimeoutWhileFetching)}

retryable(msg) == msg \in RetryableMessages

\* a faulty variant: the text matched without lower-casing
is_timeout_symbol_exact(msg) ==
    msg \in {m \in Messages : Contains(Chars(m), KwTimeoutWhileFetching)}
is_timeout_symbol(msg) == msg \in TimeoutMessages

\* ------------------------------------------------------------------ tables
\* An OHLCV table, reduced to what the orchestrator and the model dispatch
\* read: which columns it has, how many daily bars (the bars are the last
\* `bars` days before a common as-of day, so an inner join of two tables has
\* the smaller count), how many of its leading bars lie in a bucket with no
\* rolling reference, and whether its values convert to float.
Columns == {"open", "high", "low", "close", "volume"}
NoTable == [id |-> 0, cols |-> {}, bars |-> 0, lead |-> 0, numeric |-> FALSE]
TGood == [id |-> 1, cols |-> Columns, bars |-> default_bars, lead |-> 5, numeric |-> TRUE]
TShort == [id |-> 2, cols |-> Columns, bars |-> 24, lead |-> 5, numeric |-> TRUE]
TNoClose == [id |-> 3, cols |-> Columns \ {"close"}, bars |-> default_bars, lead |-> 5, numeric |-> TRUE]
TNoLow == [id |-> 4, cols |-> Columns \ {"low"}, bars |-> default_bars, lead |-> 5, numeric |-> TRUE]
TBad == [id |-> 5, cols |-> Columns, bars |-> default_bars, lead |-> 5, numeric |-> FALSE]
Tables == {TGood, TShort, TNoClose, TNoLow, TBad}
\* tables of 20 and of 25 bars, one without the high column, and one whose
\* bars all lie in buckets with no rolling reference
T20 == [id |-> 6, cols |-> Columns, bars |-> 20, lead |-> 5, numeric |-> TRUE]
T25 == [id |-> 7, cols |-> Columns, bars |-> MinAlignedBars, lead |-> 5, numeric |-> TRUE]
TNoHigh == [id |-> 8, cols |-> Columns \ {"high"}, bars |-> default_bars, lead |-> 5, numeric |-> TRUE]
TYoung == [id |-> 9, cols |-> Columns, bars |-> 30, lead |-> 30, numeric |-> TRUE]

\* ------------------------------------------------------------- configuration
Benchmark == "SET:SET100"
Universe == <<"SET:NOVO80", "SET:PTT">>
UniverseSet == {Universe[i] : i \in 1..Len(Universe)}
Symbols == UniverseSet \cup {Benchmark}

\* _SYMBOL_FALLBACKS.get(symbol, []), for the symbols of the configuration
SYMBOL_FALLBACKS(symbol) ==
    CASE symbol = "SET:NOVO80" -> <<"SET:NOVOB80">>
      [] OTHER -> <<>>

\* candidates = [symbol, *[s for s in fallbacks if s and s != symbol]]
\* a faulty variant: the aliases tried before the requested symbol
candidates_reversed(symbol) ==
    LET keep(s) == s # "" /\ s # symbol
    IN  SelectSeq(SYMBOL_FALLBACKS(symbol), keep) \o <<symbol>>
candidates(symbol) ==
    LET keep(s) == s # "" /\ s # symbol
    IN  <<symbol>> \o SelectSeq(SYMBOL_FALLBACKS(symbol), keep)

\* cache_key = f"{symbol}|{resolution}|{bars}"; resolution and bars are the
\* same for every fetch of a run, so the key varies with the symbol alone
cache_key(symbol, candidate) == <<symbol, "D", default_bars>>
CacheKeys == {cache_key(s, s) : s \in Symbols}

\* --------------------------------------------------------------- disk cache
\* one file per key: absent, unreadable (pickle.load raises), or a payload
NoFile == [kind |-> "none", fetched_at |-> 0, df |-> NoTable]
CorruptFile == [kind |-> "corrupt", fetched_at |-> 0, df |-> NoTable]
Payload(t, df) == [kind |-> "payload", fetched_at |-> t, df |-> df]

Return(v) == [raised |-> FALSE, df |-> v]
Raise == [raised |-> TRUE, df |-> NoTable]

\* the body of get_df's try block
get_df_try(file, t, ttl) ==
    IF file.kind = "corrupt" THEN Raise
    ELSE IF (t - file.fetched_at) > ttl THEN Return(NoTable)
    ELSE Return(file.df)

\* DiskCache.get_df: os.path.exists, then try ... except Exception: return None
\* a faulty variant: without the except clause
get_df_no_except(d, key, t, ttl) ==
    IF d[key].kind = "none" THEN Return(NoTable)
    ELSE get_df_try(d[key], t, ttl)
get_df(d, key, t, ttl) ==
    IF d[key].kind = "none" THEN Return(NoTable)
    ELSE LET r == get_df_try(d[key], t, ttl)
         IN  IF r.raised THEN Return(NoTable) ELSE r

\* a direct call get_df(key, ttl_seconds=ttl) at time `at` and its outcome
NoGet == [key |-> <<>>, ttl |-> 0, at |-> 0, raised |-> FALSE, df |-> NoTable]
Got(key, ttl, t, r) ==
    [key |-> key, ttl |-> ttl, at |-> t, raised |-> r.raised, df |-> r.df]

\* the last direct call set_df(key, df) on one key whose file is still as
\* the call left it: its table and its time
NoPut == [df |-> NoTable, at |-> 0]
Put(df, t) == [df |-> df, at |-> t]
\* the key of the latest direct set_df and the table its call replaced
NoLast == [key |-> <<>>, prev |-> NoTable]
Last(key, old) == [key |-> key, prev |-> old.df]

\* DiskCache.set_df: the file of the key is overwritten
\* a faulty variant: a file that exists is left as it is
set_df_keep_existing(d, key, df, t) ==
    IF d[key].kind = "payload" THEN d ELSE [d EXCEPT ![key] = Payload(t, df)]
set_df(d, key, df, t) == [d EXCEPT ![key] = Payload(t, df)]

\* ------------------------------------------------------------ quote client
\* client.get_ohlcv(symbol, resolution, bars): a table, or an error whose
\* str() is one of the messages
ClientErrors == {MsgTimeout, MsgConnection, MsgInvalid, MsgEmpty}
Outcomes(tables, msgs) ==
    {[ok |-> TRUE, df |-> t, msg |-> NoneMsg] : t \in tables}
    \cup {[ok |-> FALSE, df |-> NoTable, msg |-> m] : m \in msgs}
NoResponse == [ok |-> FALSE, df |-> NoTable, msg |-> NoneMsg]
ClientOutcomes == Outcomes({TGood, TShort, TNoClose, TBad}, ClientErrors)
\* a reduced client, for sessions with several fetches
LiteOutcomes == Outcomes({TGood, TShort}, {MsgTimeout})

\* ---------------------------------------------------------------- one batch
\* the symbols of one fetch batch, in the order their jobs are submitted
BatchUniverse == <<"SET:AOT", "SET:NOVO80", "SET:PTT">>
BatchSymbols == {BatchUniverse[i] : i \in 1..Len(BatchUniverse)}

\* what one symbol's job comes back with, whenever it completes: a table whose
\* latest point lies in a quadrant at a distance, in the pool ("ok") or only
\* in the sequential retry after a timeout in the pool ("late"), or an error
Quadrants == <<"Improving", "Lagging", "Leading", "Weakening">>
Distances == {1, 2}
Fetched(q, d) == [kind |-> "ok", quadrant |-> q, distance |-> d]
Late(q, d) == [kind |-> "late", quadrant |-> q, distance |-> d]
Failed == [kind |-> "err", quadrant |-> "", distance |-> 0]
BatchOutcomes ==
    {Fetched(q, d) : q \in {"Lagging", "Leading"}, d \in Distances}
        \cup {Late("Leading", 1), Failed}

\* str < str on the quadrant names
QuadrantRank(q) == CHOOSE i \in 1..Len(Quadrants) : Quadrants[i] = q
\* row a goes before row b under
\* sort_values(["quadrant", "distance"], ascending=[True, False])
Before(a, b) ==
    \/ QuadrantRank(a.quadrant) < QuadrantRank(b.quadrant)
    \/ a.quadrant = b.quadrant /\ a.distance > b.distance

\* DataFrame.sort_values on several columns is a stable sort: rows that
\* compare equal stay in the order they had
RECURSIVE Insert(_, _, _)
Insert(sorted, s, o) ==
    IF sorted = <<>> THEN <<s>>
    ELSE IF Before(o[s], o[Head(sorted)]) THEN <<s>> \o sorted
    ELSE <<Head(sorted)>> \o Insert(Tail(sorted), s, o)
RECURSIVE sort_values(_, _)
sort_values(rows, o) ==
    IF rows = <<>> THEN <<>>
    ELSE Insert(sort_values(SubSeq(rows, 1, Len(rows) - 1), o), rows[Len(rows)], o)

\* ------------------------------------------------------ concurrent writers
\* how many set_df calls one thread makes, and in how many write calls
\* pickle.dump hands one payload to the file
MaxSets == 1
NBlocks == 2

\* keys "<symbol>|<resolution>|<bars>" and their characters
RaceKeys == {"S:A|D|9", "S_A|D|9", "S:B|D|9"}
KeyChars(k) ==
    CASE k = "S:A|D|9" -> <<"S", ":", "A", "|", "D", "|", "9">>
      [] k = "S_A|D|9" -> <<"S", "_", "A", "|", "D", "|", "9">>
      [] k = "S:B|D|9" -> <<"S", ":", "B", "|", "D", "|", "9">>

\* DiskCache._path_for_key: the chain of str.replace calls; none of them
\* produces a character a later one replaces
SafeChar(c) ==
    CASE c = "|" -> <<"_", "_">>
      [] c \in {":", "/", "\\", "?", "*"} -> <<"_">>
      [] OTHER -> <<c>>
RECURSIVE Safe(_)
Safe(s) == IF s = <<>> THEN <<>> ELSE SafeChar(Head(s)) \o Safe(Tail(s))
path_for_key(key) == Safe(KeyChars(key))
RacePaths == {path_for_key(k) : k \in RaceKeys}

\* a file: absent, or the blocks it holds; Zero is the block of a hole, left
\* by a write past the end of the file
NoBytes == [exists |-> FALSE, bytes |-> <<>>]
Zero == [payload |-> NoFile, part |-> 0]
\* pickle.dump(payload, f): the payload goes out in NBlocks writes
Block(payload, i) == [payload |-> payload, part |-> i]
\* a write of one block at offset i of a file opened "wb"
write_at(bytes, i, b) ==
    [j \in 1..(IF Len(bytes) > i THEN Len(bytes) ELSE i) |->
        IF j = i THEN b ELSE IF j <= Len(bytes) THEN bytes[j] ELSE Zero]

\* a table read back from blocks of several payloads: the frame of the first
\* with cells of the others
RECURSIVE MixedId(_)
MixedId(ids) ==
    IF ids = <<>> THEN 0 ELSE 10 * MixedId(SubSeq(ids, 1, Len(ids) - 1)) + ids[Len(ids)]
Mixed(blocks) ==
    [blocks[1].payload.df EXCEPT
        !.id = MixedId([i \in 1..NBlocks |-> blocks[i].payload.df.id])]

\* pickle.load(f) on what the file holds now: what the except clause of
\* get_df sees is CorruptFile.  Blocks of one payload give that payload,
\* whatever follows them; a short file, or one that starts or continues with
\* a hole, does not load; blocks of different payloads are not a pickle any
\* writer made, and load either raises on them or builds a table from them
load(f) ==
    IF ~f.exists THEN {NoFile}
    ELSE IF Len(f.bytes) < NBlocks THEN {CorruptFile}
    ELSE IF \E i \in 1..NBlocks : f.bytes[i] = Zero THEN {CorruptFile}
    ELSE IF \A i \in 1..NBlocks : f.bytes[i].payload = f.bytes[1].payload
         THEN {f.bytes[1].payload}
    ELSE {CorruptFile,
          Payload(f.bytes[1].payload.fetched_at, Mixed(f.bytes))}

\* the threads that call set_df, and where one of them is in its call
Writers == {"w1", "w2"}
Idle(n) == [pc |-> "idle", key |-> "", df |-> NoTable, pos |-> 0, sets |-> n]
Writing(key, df, pos, n) ==
    [pc |-> "writing", key |-> key, df |-> df, pos |-> pos, sets |-> n]

\* ------------------------------------------------------------ the EMA model
\* _quadrant
\* a faulty variant: the boundary belongs to the lower side
quadrant_exclusive(rs_ratio, rs_mom) ==
    IF rs_ratio > 100 /\ rs_mom > 100 THEN "Leading"
    ELSE IF rs_ratio > 100 /\ rs_mom <= 100 THEN "Weakening"
    ELSE IF rs_ratio <= 100 /\ rs_mom <= 100 THEN "Lagging"
    ELSE "Improving"
quadrant(rs_ratio, rs_mom) ==
    IF rs_ratio >= 100 /\ rs_mom >= 100 THEN "Leading"
    ELSE IF rs_ratio >= 100 /\ rs_mom < 100 THEN "Weakening"
    ELSE IF rs_ratio < 100 /\ rs_mom < 100 THEN "Lagging"
    ELSE "Improving"

Min(a, b) == IF a < b THEN a ELSE b
Max(a, b) == IF a > b THEN a ELSE b

\* Numbers are held as intervals [lo, hi] of integers, in units of 1/Scale,
\* that contain the exact value; every operation rounds lo down and hi up.
Scale == 10000
Exactly(n) == [lo |-> n * Scale, hi |-> n * Scale]
FloorDiv(a, b) == a \div b
CeilDiv(a, b) == 0 - ((0 - a) \div b)

\* the quotient and the remainder of a * b by c, for a, b >= 0 < c, found bit
\* by bit of b so that no intermediate value leaves the machine integers
RECURSIVE MulDiv(_, _, _)
MulDiv(a, b, c) ==
    IF b = 0 THEN [q |-> 0, r |-> 0]
    ELSE LET h == MulDiv(a, b \div 2, c)
             r2 == 2 * h.r + (b % 2) * (a % c)
         IN  [q |-> 2 * h.q + (b % 2) * (a \div c) + (r2 \div c), r |-> r2 % c]

\* 100.0 * (x / y), for positive x and y
\* a faulty variant: the operands the other way round
normalized_inverted(x, y) ==
    LET d == MulDiv(100 * Scale, y.lo, x.hi)
        u == MulDiv(100 * Scale, y.hi, x.lo)
    IN  [lo |-> d.q, hi |-> u.q + (IF u.r = 0 THEN 0 ELSE 1)]
normalized(x, y) ==
    LET d == MulDiv(100 * Scale, x.lo, y.hi)
        u == MulDiv(100 * Scale, x.hi, y.lo)
    IN  [lo |-> d.q, hi |-> u.q + (IF u.r = 0 THEN 0 ELSE 1)]

\* Series.ewm(span=span, adjust=False).mean(), one bar on: the mean of the
\* first bar is its value, then mean + alpha * (x - mean), alpha = 2/(span+1)
ewm_mean(prev, x, span) ==
    [lo |-> prev.lo + FloorDiv(2 * (x.lo - prev.lo), span + 1),
     hi |-> prev.hi + CeilDiv(2 * (x.hi - prev.hi), span + 1)]

\* app.py lines 753-755: the lengths in force for the aligned bars
effective_len(len, aligned_bars) == Min(Max(5, len), Max(5, aligned_bars - 5))

\* the closes of the symbol: a straight line from `first` to `last` over
\* default_bars bars; those of the benchmark: 100 throughout
Closes(first, last, ratio, mom) ==
    [first |-> first, last |-> last, ratio_len |-> ratio, mom_len |-> mom]
FlatSeries == Closes(100, 100, rrg_ratio_len, rrg_mom_len)
close_symbol(sr, t) ==
    [lo |-> sr.first * Scale
              + FloorDiv((sr.last - sr.first) * Scale * t, default_bars - 1),
     hi |-> sr.first * Scale
              + CeilDiv((sr.last - sr.first) * Scale * t, default_bars - 1)]
close_benchmark == Exactly(100)

\* a number of 1/Scale units, counted from 100 in those units: it lies on
\* the same side of 100 as the value it stands for
FromParity(v) == 100 + (v - 100 * Scale)

\* compute_rrg_for_symbol, lines 33-38 and 56, at bar t (bars count from 0):
\* the columns rs, rs_ma, rs_ratio, ratio_ma, rs_mom from those of the bar
\* before, and the quadrants the row may be given
frame_at(sr, t, before) ==
    LET rs == normalized(close_symbol(sr, t), close_benchmark)
        rs_ma == IF t = 0 THEN rs
                 ELSE ewm_mean(before.rs_ma, rs,
                               effective_len(sr.ratio_len, default_bars))
        rs_ratio == normalized(rs, rs_ma)
        ratio_ma == IF t = 0 THEN rs_ratio
                    ELSE ewm_mean(before.ratio_ma, rs_ratio,
                                  effective_len(sr.mom_len, default_bars))
        rs_mom == normalized(rs_ratio, ratio_ma)
    IN  [t |-> t, rs |-> rs, rs_ma |-> rs_ma, rs_ratio |-> rs_ratio,
         ratio_ma |-> ratio_ma, rs_mom |-> rs_mom,
         quadrant |-> {quadrant(FromParity(x), FromParity(y)) :
                          x \in {rs_ratio.lo, rs_ratio.hi},
                          y \in {rs_mom.lo, rs_mom.hi}}]

\* a float cell: a number or NaN
NaN == [nan |-> TRUE, v |-> 0]
Num(v) == [nan |-> FALSE, v |-> v]

\* ------------------------------------------------------ rolling references
\* Timestamps are days; day 0 is a Monday and the first of January.  The
\* first days of the months around it (October of the year before to June)
MonthStarts == <<-92, -61, -31, 0, 31, 59, 90, 120, 151>>
MonthOf(ts) == CHOOSE i \in 1..Len(MonthStarts) :
                  /\ MonthStarts[i] <= ts
                  /\ i < Len(MonthStarts) => ts < MonthStarts[i + 1]
\* _month_start: ts.replace(day=1)
month_start(ts) == MonthStarts[MonthOf(ts)]
\* ms - pd.DateOffset(months=n), for a first of the month ms
minus_months(ms, n) == MonthStarts[MonthOf(ms) - n]
\* _week_start: ts - Timedelta(days=ts.weekday())
week_start(ts) == ts - (ts % 7)
\* ws - pd.Timedelta(weeks=n)
minus_weeks(ws, n) == ws - 7 * n

\* high[(high.index >= window_start) & (high.index < window_end)]
\* a faulty variant: the bars of the bucket's first day are let in
in_window_closed(ts, window_start, window_end) ==
    window_start <= ts /\ ts <= window_end
in_window(ts, window_start, window_end) ==
    window_start <= ts /\ ts < window_end

\* series.astype(float).dropna(): the days that hold a value
dropna(col) == {ts \in DOMAIN col : ~col[ts].nan}
MaxOf(S) == CHOOSE x \in S : \A y \in S : y <= x
MinOf(S) == CHOOSE x \in S : \A y \in S : x <= y

\* _three_month_high_by_month_start, _fifty_two_week_high_by_week_start and
\* _fifty_two_week_low_by_week_start: for each bucket that holds a bar, the
\* extreme over the bars of the window before it; a bucket with an empty
\* window gets no entry
Window(col, from, to) == {col[ts].v : ts \in {d \in dropna(col) : in_window(d, from, to)}}
three_month_high_by_month_start(high) ==
    LET month_starts == {month_start(ts) : ts \in dropna(high)}
        w(ms) == Window(high, minus_months(ms, 3), ms)
    IN  [ms \in {m \in month_starts : w(m) # {}} |-> MaxOf(w(ms))]
fifty_two_week_high_by_week_start(high) ==
    LET week_starts == {week_start(ts) : ts \in dropna(high)}
        w(ws) == Window(high, minus_weeks(ws, 52), ws)
    IN  [ws \in {k \in week_starts : w(k) # {}} |-> MaxOf(w(ws))]
fifty_two_week_low_by_week_start(low) ==
    LET week_starts == {week_start(ts) : ts \in dropna(low)}
        w(ws) == Window(low, minus_weeks(ws, 52), ws)
    IN  [ws \in {k \in week_starts : w(k) # {}} |-> MinOf(w(ws))]

\* the bucket of a date under a window model, and the model's map
bucket_of(model_id, ts) ==
    IF model_id = "3m_high" THEN month_start(ts) ELSE week_start(ts)
by_bucket(model_id, col) ==
    CASE model_id = "3m_high" -> three_month_high_by_month_start(col)
      [] model_id = "52w_high" -> fifty_two_week_high_by_week_start(col)
      [] model_id = "52w_low" -> fifty_two_week_low_by_week_start(col)

\* sym_3m.get(ms, float("nan")): the reference a model applies to a date
reference_on(model_id, map, ts) ==
    IF bucket_of(model_id, ts) \in DOMAIN map
    THEN Num(map[bucket_of(model_id, ts)]) ELSE NaN

\* _three_month_high_mark: the highest high of the three months before the
\* month of ref_date and the latest day that has it, or (None, None)
NoMark == [value |-> NaN, date |-> NaN]
three_month_high_mark(high, ref_date) ==
    LET start_current_month == month_start(ref_date)
        days == {d \in dropna(high) :
                    in_window(d, minus_months(start_current_month, 3),
                              start_current_month)}
        max_high == MaxOf({high[d].v : d \in days})
    IN  IF days = {} THEN NoMark
        ELSE [value |-> Num(max_high),
              date |-> Num(MaxOf({d \in days : high[d].v = max_high}))]

\* the days a bar may lie on: the last of January, the first of February,
\* the last of April, the first and the sixth of May (for the month
\* buckets); the Sunday of the first week, the Monday of the next, the
\* Sunday and the Monday 52 weeks on and the Tuesday after (for the weeks)
MonthDays == {30, 31, 119, 120, 125}
WeekDays == {6, 7, 370, 371, 372}
DaysOf(model_id) == IF model_id = "3m_high" THEN MonthDays ELSE WeekDays
Cells == {NaN, Num(1), Num(2)}
NoBars == [model |-> "none", col |-> <<>>]
NoRefs ==
    [built |-> FALSE, map |-> <<>>, date |-> NaN, ref |-> NaN,
     ref_date |-> NaN, mark |-> NoMark]

\* ------------------------------------------------------------------ breadth
\* An OHLCV table here is its rows in date order, the date of a row being
\* its position; a cell is a number or NaN.
Bar(h, l) == [high |-> h, low |-> l]
Column(df, name) == [i \in 1..Len(df) |-> df[i][name]]
\* window_bars = max(2, int(window_bars))
breadth_window(window_bars) == Max(2, window_bars)

\* col.rolling(n, min_periods=n): the positions whose window of n bars is
\* complete; a faulty variant lets one bar make a window
full_window_of_one(col, n, i) ==
    \E j \in 1..i : i - j < n /\ ~col[j].nan
full_window(col, n, i) ==
    i >= n /\ \A j \in (i - n + 1)..i : ~col[j].nan
WindowValues(col, n, i) ==
    {col[j].v : j \in {k \in 1..i : i - k < n /\ ~col[k].nan}}
rolling_max(col, n) ==
    [i \in 1..Len(col) |->
        IF full_window(col, n, i) THEN Num(MaxOf(WindowValues(col, n, i))) ELSE NaN]
rolling_min(col, n) ==
    [i \in 1..Len(col) |->
        IF full_window(col, n, i) THEN Num(MinOf(WindowValues(col, n, i))) ELSE NaN]
\* col.shift(1)
shift(col) == [i \in 1..Len(col) |-> IF i = 1 THEN NaN ELSE col[i - 1]]
\* a > b on floats: False when either side is NaN
gt(a, b) == ~a.nan /\ ~b.nan /\ a.v > b.v
lt(a, b) == gt(b, a)
\* (cond).where(ref.notna()).astype(float)
where_notna(cond, ref) == IF ref.nan THEN NaN ELSE Num(IF cond THEN 1 ELSE 0)

\* new_high and new_low of one symbol, date by date
new_high_of(df, n) ==
    LET high == Column(df, "high")
        prev_max == shift(rolling_max(high, n))
    IN  [i \in 1..Len(df) |-> where_notna(gt(high[i], prev_max[i]), prev_max[i])]
new_low_of(df, n) ==
    LET low == Column(df, "low")
        prev_min == shift(rolling_min(low, n))
    IN  [i \in 1..Len(df) |-> where_notna(lt(low[i], prev_min[i]), prev_min[i])]

\* pd.concat(frames, axis=1): the cell of a symbol on a date it has no row for
\* is NaN
CellAt(col, d) == IF d \in DOMAIN col THEN col[d] ELSE NaN
\* df.notna().sum(axis=1) and df.sum(axis=1, skipna=True), on date d
notna_sum(frames, d) ==
    Cardinality({s \in DOMAIN frames : ~CellAt(frames[s], d).nan})
sum_skipna(frames, d) ==
    Cardinality({s \in DOMAIN frames : CellAt(frames[s], d) = Num(1)})
\* (count / denom) * 100.0, then inf replaced by NA: 0/0 is NaN already
pct_of(count, denom) == IF denom = 0 THEN NaN ELSE Num((count * 100) \div denom)

\* the denominator new_low_pct would have were it counted over the new-low
\* flags: a variant the code does not have
low_denom_of_lows(df_high, df_low, d) == notna_sum(df_low, d)
low_denom(df_high, df_low, d) == notna_sum(df_high, d)

\* _compute_breadth_new_high_low: a symbol whose table is empty is skipped;
\* df_high and df_low are its frames of flags, one column per symbol
Listed(ohlcv) == {s \in DOMAIN ohlcv : ohlcv[s] # <<>>}
df_high_of(ohlcv, window_bars) ==
    [s \in Listed(ohlcv) |-> new_high_of(ohlcv[s], breadth_window(window_bars))]
df_low_of(ohlcv, window_bars) ==
    [s \in Listed(ohlcv) |-> new_low_of(ohlcv[s], breadth_window(window_bars))]
compute_breadth_new_high_low(ohlcv, window_bars) ==
    LET syms == Listed(ohlcv)
        df_high == df_high_of(ohlcv, window_bars)
        df_low == df_low_of(ohlcv, window_bars)
        last == MaxOf({Len(ohlcv[s]) : s \in syms})
    IN  IF syms = {} THEN <<>>
        ELSE [d \in 1..last |->
                LET denom == notna_sum(df_high, d)
                    new_high_count == sum_skipna(df_high, d)
                    new_low_count == sum_skipna(df_low, d)
                IN  [new_high_count |-> new_high_count,
                     new_low_count |-> new_low_count,
                     new_high_minus_low |-> new_high_count - new_low_count,
                     new_high_pct |-> pct_of(new_high_count, denom),
                     new_low_pct |->
                        pct_of(new_low_count, low_denom(df_high, df_low, d))]]

\* the tables of the checks: every table of four bars for one symbol, and a
\* few for the other: none, three flat bars, four flat bars, four bars whose
\* last makes a new high and a new low
BreadthSymbols == {"SET:AOT", "SET:PTT"}
Bars == {Bar(h, l) : h \in Cells, l \in Cells}
FlatBar == Bar(Num(1), Num(2))
OtherTables ==
    {<<>>, <<FlatBar, FlatBar, FlatBar>>, <<FlatBar, FlatBar, FlatBar, FlatBar>>,
     <<FlatBar, FlatBar, FlatBar, Bar(Num(2), Num(1))>>}
NoMarket == [window_bars |-> 0, ohlcv |-> [s \in BreadthSymbols |-> <<>>]]
NoBreadth == [done |-> FALSE, df_high |-> <<>>, df_low |-> <<>>, table |-> <<>>]

\* ------------------------------------------------------- per-symbol flags
\* A fraction, or NaN: the value of an exponential mean
NaR == [nan |-> TRUE, n |-> 0, d |-> 1]
Rat(n, d) == [nan |-> FALSE, n |-> n, d |-> d]
RECURSIVE Pow(_, _)
Pow(b, k) == IF k = 0 THEN 1 ELSE b * Pow(b, k - 1)

\* col.ewm(span=span, adjust=False).mean() up to position i: NaN until the
\* first value; a NaN cell keeps the mean and ages its weight by one step
RECURSIVE ewm_at(_, _, _)
ewm_at(col, span, i) ==
    IF i = 0 THEN [w |-> NaR, gap |-> 0]
    ELSE LET p == ewm_at(col, span, i - 1)
             cur == col[i]
         IN  IF p.w.nan
             THEN IF cur.nan THEN p ELSE [w |-> Rat(cur.v, 1), gap |-> 0]
             ELSE IF cur.nan THEN [w |-> p.w, gap |-> p.gap + 1]
             ELSE LET old_wt == Pow(span - 1, p.gap + 1)
                      new_wt == 2 * Pow(span + 1, p.gap)
                  IN  [w |-> Rat(old_wt * p.w.n + new_wt * cur.v * p.w.d,
                                 p.w.d * (old_wt + new_wt)),
                       gap |-> 0]
ewm(col, span, i) == ewm_at(col, span, i).w

\* float comparisons of a cell with a mean: False when either side is NaN
cell_gt(px, m) == ~px.nan /\ ~m.nan /\ px.v * m.d > m.n
cell_lt(px, m) == ~px.nan /\ ~m.nan /\ px.v * m.d < m.n

\* above_emaN: bool(last_close > ema_N) if pd.notna(ema_N) else False
above_ema(last_close, ema_n) ==
    IF ~ema_n.nan THEN (IF cell_gt(last_close, ema_n) THEN "True" ELSE "False")
    ELSE "False"
\* _between: pd.NA when an operand is NaN or NA, else bool(lo < px < hi)
between(lo, px, hi) ==
    IF lo.nan \/ px.nan \/ hi.nan THEN "NA"
    ELSE IF cell_gt(px, lo) /\ cell_lt(px, hi) THEN "True" ELSE "False"
\* pd.NA if pd.isna(pmax) else bool(h_last > float(pmax)), and the same
\* for l_last < float(pmin)
new_high_flag(h_last, pmax) ==
    IF pmax.nan THEN "NA" ELSE IF gt(h_last, pmax) THEN "True" ELSE "False"
new_low_flag(l_last, pmin) ==
    IF pmin.nan THEN "NA" ELSE IF lt(l_last, pmin) THEN "True" ELSE "False"

\* the days of the bars of the checks: a Thursday, the Friday after it and
\* the Monday after that (day 0 is a Monday)
FlagDays == <<3, 4, 7>>
\* the bin of resample("W-FRI"): the Friday on or after the day
week_end(day) == day + (((4 - (day % 7)) + 7) % 7)
\* the positions of the table up to a day: .loc[:cutoff]
UpTo(day) == {i \in 1..Len(FlagDays) : FlagDays[i] <= day}
\* close_up_to.resample("W-FRI").last().dropna(): per week that holds a
\* close, the last close of it, in week order
RECURSIVE weekly_close(_, _)
weekly_close(close, upto) ==
    IF upto = {} THEN <<>>
    ELSE LET last == MaxOf(upto)
             week == {i \in upto : week_end(FlagDays[i]) = week_end(FlagDays[last])}
             held == {i \in week : ~close[i].nan}
             before == weekly_close(close, upto \ week)
         IN  IF held = {} THEN before ELSE Append(before, close[MaxOf(held)])

\* one pass of the loop of _compute_breadth_symbol_flags: the row of a symbol
\* whose table df has the columns close, high and low
NoFlags ==
    [done |-> FALSE, last_close |-> NaN, ema20_value |-> NaR, ema50_value |-> NaR,
     ema200_value |-> NaR, ema200w_value |-> NaR, above_ema20 |-> "False",
     above_ema50 |-> "False", above_ema200 |-> "False", recovering |-> "NA",
     early_recovery |-> "NA", new_high |-> "NA", new_low |-> "NA",
     high_last |-> NaN, prev_high_max |-> NaN, low_last |-> NaN,
     prev_low_min |-> NaN]
symbol_flags(df, asof, window_bars) ==
    LET n == breadth_window(window_bars)
        s_close == Column(df, "close")
        close_up_to == IF UpTo(asof) = {} THEN DOMAIN s_close ELSE UpTo(asof)
        last_idx == MaxOf(close_up_to)
        last_close == s_close[last_idx]
        ema_20 == ewm(s_close, 20, last_idx)
        ema_50 == ewm(s_close, 50, last_idx)
        ema_200 == ewm(s_close, 200, last_idx)
        weekly == weekly_close(s_close, close_up_to)
        ema_200w == IF weekly = <<>> THEN NaR ELSE ewm(weekly, 200, Len(weekly))
        upto == UpTo(asof)
        high == [i \in upto |-> df[i].high]
        low == [i \in upto |-> df[i].low]
        last == MaxOf(upto)
        pmax == shift(rolling_max(high, n))[last]
        pmin == shift(rolling_min(low, n))[last]
    IN  [done |-> TRUE,
         last_close |-> last_close,
         ema20_value |-> ema_20, ema50_value |-> ema_50,
         ema200_value |-> ema_200, ema200w_value |-> ema_200w,
         above_ema20 |-> above_ema(last_close, ema_20),
         above_ema50 |-> above_ema(last_close, ema_50),
         above_ema200 |-> above_ema(last_close, ema_200),
         recovering |-> between(ema_200, last_close, ema_200w),
         early_recovery |-> between(ema_50, last_close, ema_200),
         new_high |-> IF upto = {} THEN "NA" ELSE new_high_flag(high[last], pmax),
         new_low |-> IF upto = {} THEN "NA" ELSE new_low_flag(low[last], pmin),
         high_last |-> IF upto = {} THEN NaN ELSE high[last],
         prev_high_max |-> IF upto = {} THEN NaN ELSE pmax,
         low_last |-> IF upto = {} THEN NaN ELSE low[last],
         prev_low_min |-> IF upto = {} THEN NaN ELSE pmin]

Ohlc(c, h, l) == [close |-> c, high |-> h, low |-> l]
NoSnapshot == [asof |-> 0, window_bars |-> 0, df |-> <<>>]

\* ----------------------------------------------------------- volume averages
\* A table of daily bars is its rows [ts, volume] in the order given; the
\* volume is a cell.
\* df.dropna(subset=["volume"])
dropna_volume(df) == SelectSeq(df, LAMBDA row : ~row.volume.nan)
\* df.sort_index(): the rows by ascending timestamp (timestamps differ)
sort_index(df) ==
    [i \in 1..Len(df) |->
        df[CHOOSE j \in 1..Len(df) :
              Cardinality({k \in 1..Len(df) : df[k].ts < df[j].ts}) = i - 1]]
\* df.iloc[:-1], from the second bar on; a faulty variant keeps the last bar
hist_with_latest(df) == df
hist_of(df) == IF Len(df) >= 2 THEN SubSeq(df, 1, Len(df) - 1) ELSE df
RECURSIVE SumOf(_)
SumOf(v) == IF v = <<>> THEN 0 ELSE v[1] + SumOf(Tail(v))
\* _mean_or_none(v[-n:]) behind the guard v.size < n: a fraction, or None
NoAvg == [none |-> TRUE, n |-> 0, d |-> 1]
Avg(total, count) == [none |-> FALSE, n |-> total, d |-> count]
avg(v, n) ==
    IF Len(v) < n THEN NoAvg
    ELSE Avg(SumOf(SubSeq(v, Len(v) - n + 1, Len(v))), n)
\* compute_volume_averages: None, or the VolumeAverages of the table
NoAverages ==
    [none |-> TRUE, asof_ts |-> 0, avg5 |-> NoAvg, avg10 |-> NoAvg,
     avg20 |-> NoAvg, avg50 |-> NoAvg]
compute_volume_averages(table) ==
    LET df == sort_index(dropna_volume(table))
        hist == hist_of(df)
        v == [i \in 1..Len(hist) |-> hist[i].volume.v]
    IN  IF df = <<>> THEN NoAverages
        ELSE [none |-> FALSE,
              asof_ts |-> IF Len(df) >= 2 THEN df[Len(df) - 1].ts ELSE df[Len(df)].ts,
              avg5 |-> avg(v, 5), avg10 |-> avg(v, 10),
              avg20 |-> avg(v, 20), avg50 |-> avg(v, 50)]

\* the tables of the checks: bars of volume 1 on the days 1..len, but one bar
\* of volume 3 and one of no volume, in ascending or descending order
VolumeLengths == {0, 1, 2, 5, 6, 7, 10, 11, 12, 20, 21, 22, 50, 51, 52}
VolumeTable(len, big, gap, rev) ==
    [i \in 1..len |->
        LET ts == IF rev THEN len + 1 - i ELSE i
        IN  [ts |-> ts,
             volume |-> IF ts = gap THEN NaN ELSE IF ts = big THEN Num(3) ELSE Num(1)]]
VolumeTables ==
    {VolumeTable(len, big, gap, rev) :
        len \in VolumeLengths, big \in 0..52, gap \in {0, 1, 3, 51, 52}, rev \in BOOLEAN}
NoComputed == [done |-> FALSE, value |-> NoAverages]

\* -------------------------------------------------------- symbol normaliser
\* A string is the sequence of its characters; None is a string of its own.
NoneStr == <<"<None>">>
Quote == {"\"", "'"}
\* (token or "")
or_empty(token) == IF token = NoneStr THEN <<>> ELSE token
\* str.strip() and str.upper(), over the characters of the checks
RECURSIVE lstrip(_)
lstrip(s) == IF s # <<>> /\ Head(s) = " " THEN lstrip(Tail(s)) ELSE s
RECURSIVE rstrip(_)
rstrip(s) ==
    IF s # <<>> /\ s[Len(s)] = " " THEN rstrip(SubSeq(s, 1, Len(s) - 1)) ELSE s
strip(s) == rstrip(lstrip(s))
upper(s) == [i \in 1..Len(s) |-> IF s[i] = "a" THEN "A" ELSE s[i]]

\* _strip_quotes: one pair of matching quotes around the stripped token
quoted(s) == Len(s) >= 2 /\ s[1] = s[Len(s)] /\ s[1] \in Quote
strip_quotes(token) ==
    LET s == strip(or_empty(token))
    IN  IF quoted(s) THEN strip(SubSeq(s, 2, Len(s) - 1)) ELSE s

\* s.split(":", 1)
first_colon(s) == CHOOSE i \in 1..Len(s) : s[i] = ":" /\ \A j \in 1..(i - 1) : s[j] # ":"
has_colon(s) == \E i \in 1..Len(s) : s[i] = ":"

\* normalize_symbol: "" for a token that holds no symbol
normalize_symbol(symbol, default_exchange) ==
    LET s == upper(strip_quotes(symbol))
    IN  IF s = <<>> THEN <<>>
        ELSE IF has_colon(s)
        THEN LET ex == upper(strip_quotes(SubSeq(s, 1, first_colon(s) - 1)))
                 ticker == upper(strip_quotes(SubSeq(s, first_colon(s) + 1, Len(s))))
             IN  IF ex = <<>> \/ ticker = <<>> THEN <<>>
                 ELSE ex \o <<":">> \o ticker
        ELSE LET default == upper(strip(or_empty(default_exchange)))
             IN  (IF default = <<>> THEN <<"S", "E", "T">> ELSE default)
                    \o <<":">> \o s

\* normalize_symbols: the normal forms in first-seen order
RECURSIVE normalize_symbols(_, _)
normalize_symbols(symbols, default_exchange) ==
    IF symbols = <<>> THEN <<>>
    ELSE LET out == normalize_symbols(
                        SubSeq(symbols, 1, Len(symbols) - 1), default_exchange)
             ns == normalize_symbol(symbols[Len(symbols)], default_exchange)
         IN  IF ns = <<>> \/ \E i \in 1..Len(out) : out[i] = ns THEN out
             ELSE Append(out, ns)

\* the tokens of the checks: the strings over a letter, the colon, the two
\* quotes and the blank
TokenChars == {"a", ":", "\"", "'", " "}
TokensOf(len) == UNION {[1..n -> TokenChars] : n \in 0..len}
NoSymbols == [symbols |-> <<>>, default_exchange |-> <<>>]
NoNormal == [done |-> FALSE, out |-> <<>>]

\* ------------------------------------------------------- _align_close, row by row
\* A raw table is its rows [ts, close] in the order given, the time zone of
\* its index and whether it has a close column.  A timestamp is an hour on
\* the wall clock of the index, or NaT when it cannot be parsed.
NaT == [nat |-> TRUE, hour |-> 0]
At(hour) == [nat |-> FALSE, hour |-> hour]
\* idx.tz_convert("UTC").tz_localize(None), for the zones UTC and UTC+7
utc_offset(tz) == IF tz = "Asia/Bangkok" THEN 7 ELSE 0
to_utc_naive(hour, tz) == IF tz = "naive" THEN hour ELSE hour - utc_offset(tz)
\* idx.normalize(): the day of an hour
normalize(hour) == hour \div 24
DayOfRow(row, tz) == normalize(to_utc_naive(row.ts.hour, tz))

\* groupby(level=0).last(): per day the last close that is not NaN, in row
\* order, or NaN when the day has none; a faulty variant takes the first
first_of(closes_of_day) ==
    LET held == {i \in 1..Len(closes_of_day) : ~closes_of_day[i].nan}
    IN  IF held = {} THEN NaN ELSE closes_of_day[MinOf(held)]
last_of(closes_of_day) ==
    LET held == {i \in 1..Len(closes_of_day) : ~closes_of_day[i].nan}
    IN  IF held = {} THEN NaN ELSE closes_of_day[MaxOf(held)]
groupby_last(rows, tz, day) ==
    last_of([i \in 1..Len(SelectSeq(rows, LAMBDA r : DayOfRow(r, tz) = day)) |->
                SelectSeq(rows, LAMBDA r : DayOfRow(r, tz) = day)[i].close])
\* .sort_index(): the days in ascending order
RECURSIVE Ascending(_)
Ascending(S) == IF S = {} THEN <<>> ELSE <<MinOf(S)>> \o Ascending(S \ {MinOf(S)})

\* _align_close, and what main keeps of it: closes[sym], or errors[sym] = str(e)
NoAligned ==
    [done |-> FALSE, raised |-> FALSE, close |-> <<>>, in_closes |-> FALSE,
     error |-> NoneMsg]
align_close_rows(df) ==
    IF ~df.has_close
    THEN [done |-> TRUE, raised |-> TRUE, close |-> <<>>, in_closes |-> FALSE,
          error |-> MsgMissingClose]
    ELSE LET valid == SelectSeq(df.rows, LAMBDA r : ~r.ts.nat)
             days == Ascending({DayOfRow(valid[i], df.tz) : i \in 1..Len(valid)})
         IN  [done |-> TRUE, raised |-> FALSE,
              close |-> [k \in 1..Len(days) |->
                           [day |-> days[k],
                            close |-> groupby_last(valid, df.tz, days[k])]],
              in_closes |-> TRUE, error |-> NoneMsg]

\* the raw tables of the checks: up to three rows at the hours 1 and 23 of
\* one day and 25 and 30 of the next, or at no time
RawRows == {[ts |-> t, close |-> c] : t \in {NaT, At(1), At(23), At(25), At(30)}, c \in Cells}
RawTables ==
    {[has_close |-> h, tz |-> z, rows |-> r] :
        h \in BOOLEAN, z \in {"naive", "UTC", "Asia/Bangkok"},
        r \in UNION {[1..n -> RawRows] : n \in 0..3}}
NoRaw == [has_close |-> TRUE, tz |-> "naive", rows |-> <<>>]

\* ------------------------------------------------------------------- state
VARIABLES
    UNAVAILABLE_TV_SYMBOLS, \* the deny-list of known-unavailable symbols
    disk,                   \* DiskCache: cache key -> file
    now,                    \* time.time()
    data_bundle,            \* st.session_state["data_bundle"]
    data_gen,               \* st.session_state["data_gen"]
    rrg_cache,              \* st.session_state["rrg_cache"]
    aux_cache,              \* the other in-memory caches of st.session_state
    rrg_shown,              \* st.session_state["rrg_table"], ["rrg_errors"]
    aux_shown,              \* the tables the other caches gave this run
    rrg_model_id,           \* st.session_state["rrg_model_id"]
    auto_fetch_attempted,   \* st.session_state["auto_fetch_attempted"]
    st_error,               \* the error the script run surfaced (st.error)
    pc,                     \* where main's fetch block stands
    force_refresh,          \* the form's force_refresh toggle of this run
    jobs,                   \* one _fetch_one invocation per symbol
    bench_df,               \* main's bench_df
    closes, ohlcv, errors,  \* main's dictionaries of the fetch block
    collected,              \* jobs whose result as_completed has yielded
    timeout_symbols,        \* main's timeout_symbols still to retry
    retrying,               \* the symbol of the sequential retry under way
    retried,                \* how often each symbol entered the retry pass
    cache_got,              \* the last result of a direct DiskCache.get_df
    cache_put,              \* per key, the last direct DiskCache.set_df
    cache_last,             \* the latest direct DiskCache.set_df
    files,                  \* the cache directory, file by file, block by block
    threads,                \* per thread, its call of DiskCache.set_df
    finished,               \* per key, the tables of the set_df calls that returned
    race_got,               \* the last result of a get_df beside the writers
    outcome,                \* per symbol, what its fetch and its model give
    batch_pc,               \* where main is: pool, fetched, shown
    completed,              \* the symbols whose job as_completed has yielded
    closes_keys,            \* the keys of closes, in insertion order
    errors_keys,            \* the keys of errors, in insertion order
    ranked,                 \* the index of the table _compute_rrg_bundle returns
    given,                  \* a data bundle handed to _compute_rrg_bundle
    computed,               \* the model asked for and what the call returned
    points,                 \* the (rs_ratio, rs_mom) of the dates that survive dropna
    history,                \* the model asked for and the Symbol History it returned
    ema_series,             \* the closes handed to compute_rrg_for_symbol, and the lengths
    ema,                    \* the columns of its frame at the bar reached
    bars,                   \* a window model and the high or low column handed to it
    refs,                   \* its bucket map, and the reference last applied to a date
    market,                 \* the OHLCV tables handed to the breadth table, and window_bars
    hl_breadth,             \* the table _compute_breadth_new_high_low returned
    snapshot,               \* the table of one symbol, the as-of day and window_bars
    flags,                  \* the row _compute_breadth_symbol_flags gave it
    volume_df,              \* the table of daily bars handed to compute_volume_averages
    averages,               \* what it returned
    raw_symbols,            \* the tokens handed to normalize_symbols, and default_exchange
    normal,                 \* the list it returned
    raw_table,              \* the table of one symbol as the job returned it
    aligned,                \* what _align_close gave, and what main kept
    db,                     \* the tables of volume_alert.sqlite
    loop                    \* the scan loop's clock reading, its local and the quotes of its last pass

sessionVars ==
    <<data_bundle, data_gen, rrg_cache, aux_cache, aux_shown, rrg_shown,
      rrg_model_id, auto_fetch_attempted, st_error>>
runVars ==
    <<pc, force_refresh, jobs, bench_df, closes, ohlcv, errors, collected,
      timeout_symbols, retrying, retried>>
\* what the unit-level specifications keep beside the session
cacheVars == <<cache_got, cache_put, cache_last>>
raceVars == <<files, threads, finished, race_got>>
batchVars == <<outcome, batch_pc, completed, closes_keys, errors_keys, ranked>>
computeVars == <<given, computed>>
historyVars == <<points, history>>
emaVars == <<ema_series, ema>>
refVars == <<bars, refs>>
breadthVars == <<market, hl_breadth>>
flagVars == <<snapshot, flags>>
volumeVars == <<volume_df, averages>>
symbolVars == <<raw_symbols, normal>>
alignVars == <<raw_table, aligned>>
scanVars == <<db, loop>>
unitVars ==
    <<cacheVars, raceVars, batchVars, computeVars, historyVars, emaVars, refVars,
      breadthVars,
      flagVars,
      volumeVars,
      symbolVars,
      alignVars,
      scanVars>>
appVars == <<UNAVAILABLE_TV_SYMBOLS, disk, now, sessionVars, runVars>>
\* what each unit-level specification leaves alone
notCache ==
    <<raceVars, batchVars, computeVars, historyVars, emaVars, refVars,
      breadthVars,
      flagVars,
      volumeVars,
      symbolVars,
      alignVars,
      scanVars>>
notRace ==
    <<cacheVars, batchVars, computeVars, historyVars, emaVars, refVars,
      breadthVars,
      flagVars,
      volumeVars,
      symbolVars,
      alignVars,
      scanVars>>
notBatch ==
    <<cacheVars, raceVars, computeVars, historyVars, emaVars, refVars,
      breadthVars,
      flagVars,
      volumeVars,
      symbolVars,
      alignVars,
      scanVars>>
notCompute ==
    <<cacheVars, raceVars, batchVars, historyVars, emaVars, refVars,
      breadthVars,
      flagVars,
      volumeVars,
      symbolVars,
      alignVars,
      scanVars>>
notHistory ==
    <<cacheVars, raceVars, batchVars, computeVars, emaVars, refVars,
      breadthVars,
      flagVars,
      volumeVars,
      symbolVars,
      alignVars,
      scanVars>>
notRefs == <<cacheVars, raceVars, batchVars, computeVars, historyVars, emaVars,
      breadthVars,
      flagVars,
      volumeVars,
      symbolVars,
      alignVars,
      scanVars>>
notEma ==
    <<cacheVars, raceVars, batchVars, computeVars, historyVars, refVars,
      breadthVars,
      flagVars,
      volumeVars,
      symbolVars,
      alignVars,
      scanVars>>
notBreadth ==
    <<cacheVars, raceVars, batchVars, computeVars, historyVars, emaVars, refVars,
      flagVars,
      volumeVars,
      symbolVars,
      alignVars,
      scanVars>>
notFlags ==
    <<cacheVars, raceVars, batchVars, computeVars, historyVars, emaVars, refVars, breadthVars,
      volumeVars,
      symbolVars,
      alignVars,
      scanVars>>
notVolume ==
    <<cacheVars, raceVars, batchVars, computeVars, historyVars, emaVars, refVars, breadthVars, flagVars,
      symbolVars,
      alignVars,
      scanVars>>
notNormaliser ==
    <<cacheVars, raceVars, batchVars, computeVars, historyVars, emaVars, refVars, breadthVars, flagVars, volumeVars,
      alignVars,
      scanVars>>
notAlign ==
    <<cacheVars, raceVars, batchVars, computeVars, historyVars, emaVars, refVars, breadthVars, flagVars, volumeVars, symbolVars,
      scanVars>>
notScan ==
    <<cacheVars, raceVars, batchVars, computeVars, historyVars, emaVars, refVars, breadthVars, flagVars, volumeVars, symbolVars, alignVars>>
vars ==
    <<UNAVAILABLE_TV_SYMBOLS, disk, now, sessionVars, runVars, unitVars>>

ModelIds == {"ema", "3m_high", "52w_high", "52w_low"}

\* a _fetch_one invocation: its position, its locals, its return value
\* (df, err), what it did (client calls, cache reads, cache writes)
\* and what the client answered to its last call
NoJob ==
    [pc |-> "none", refresh |-> FALSE, cand |-> 0, candidate_symbol |-> "",
     attempt |-> 0, last_err |-> NoneMsg, df |-> NoTable, err |-> NoneMsg,
     calls |-> 0, reads |-> 0, writes |-> 0, resp |-> NoResponse]
NewJob(refresh) == [NoJob EXCEPT !.pc = "start", !.refresh = refresh]

NoBundle ==
    [present |-> FALSE, bench |-> NoTable,
     closes |-> [s \in UniverseSet |-> NoTable],
     ohlcv |-> [s \in UniverseSet |-> NoTable],
     errors |-> [s \in UniverseSet |-> NoneMsg]]

NoRow == [rows |-> 0, sym |-> 0, bench |-> 0, model |-> "none"]
NoResult ==
    [present |-> FALSE,
     table |-> [s \in UniverseSet |-> NoRow],
     errors |-> [s \in UniverseSet |-> NoneMsg]]

\* the high/low mark tables, the per-symbol flags and the breadth tables
AuxCaches ==
    {"three_month_high_cache", "fifty_two_week_high_cache",
     "fifty_two_week_low_cache", "breadth_symbols_cache", "breadth_cache"}
\* such a table, held as the data it was computed from
NoAux == [closes |-> <<>>, ohlcv |-> <<>>]

RunInit ==
    /\ pc = "idle"
    /\ force_refresh = FALSE
    /\ jobs = [s \in Symbols |-> NoJob]
    /\ bench_df = NoTable
    /\ closes = [s \in UniverseSet |-> NoTable]
    /\ ohlcv = [s \in UniverseSet |-> NoTable]
    /\ errors = [s \in UniverseSet |-> NoneMsg]
    /\ collected = {}
    /\ timeout_symbols = {}
    /\ retrying = ""
    /\ retried = [s \in UniverseSet |-> 0]

\* the cache directory as earlier processes left it: empty, or an entry
\* per key written at time 0
InitDisks ==
    {[k \in CacheKeys |-> NoFile], [k \in CacheKeys |-> Payload(0, TGood)]}

\* the script has not run yet; the deny-list is the configured one
InitApp(deny_lists, disks) ==
    /\ UNAVAILABLE_TV_SYMBOLS \in deny_lists
    /\ disk \in disks
    /\ now = 0
    /\ data_bundle = NoBundle
    /\ data_gen = 0
    /\ rrg_cache = <<>>
    /\ aux_cache = [c \in AuxCaches |-> <<>>]
    /\ aux_shown = [c \in AuxCaches |-> NoAux]
    /\ rrg_shown = NoResult
    /\ rrg_model_id = "ema"
    /\ auto_fetch_attempted = FALSE
    /\ st_error = NoneMsg
    /\ RunInit
    /\ cache_got = NoGet
    /\ cache_put = [k \in CacheKeys |-> NoPut]
    /\ cache_last = NoLast
    /\ files = [p \in RacePaths |-> NoBytes]
    /\ threads = [w \in Writers |-> Idle(0)]
    /\ finished = [k \in RaceKeys |-> {}]
    /\ race_got = NoGet

\* a batch has been submitted and none of its jobs has been yielded
BatchStart(outcomes) ==
    /\ outcome \in outcomes
    /\ batch_pc = "pool"
    /\ completed = {}
    /\ closes_keys = <<>>
    /\ errors_keys = <<>>
    /\ ranked = <<>>

\* a bundle is at hand and no model has been computed on it
ComputeStart(bundles) ==
    /\ given \in bundles
    /\ computed = [model |-> "none", result |-> NoResult]

\* a column is at hand; no map has been built from it
RefsStart(inputs) ==
    /\ bars \in inputs
    /\ refs = NoRefs

\* the first bar of a series has been computed
EmaStart(inputs) ==
    /\ ema_series \in inputs
    /\ ema = frame_at(ema_series, 0, <<>>)

\* a series of points is at hand and no model has been run on it
HistoryStart(series) ==
    /\ points \in series
    /\ history = [model |-> "none", rows |-> <<>>]

\* tables are at hand and no breadth table has been computed
BreadthStart(inputs) ==
    /\ market \in inputs
    /\ hl_breadth = NoBreadth

\* a table is at hand and its row of flags has not been computed
FlagsStart(inputs) ==
    /\ snapshot \in inputs
    /\ flags = NoFlags

\* a table of bars is at hand and its averages have not been computed
VolumeStart(inputs) ==
    /\ volume_df \in inputs
    /\ averages = NoComputed

\* tokens are at hand and have not been normalised
NormaliserStart(inputs) ==
    /\ raw_symbols \in inputs
    /\ normal = NoNormal

\* a raw table is at hand and has not been aligned
AlignStart(inputs) ==
    /\ raw_table \in inputs
    /\ aligned = NoAligned


\* ---------------------------------------------------------- volume scan loop
\* a datetime of the market's timezone, in seconds from 00:00 of a Monday
HMS(h, m, s) == (h * 60 + m) * 60 + s
time_of(dt) == dt % HMS(24, 0, 0)
date_of(dt) == dt \div HMS(24, 0, 0)
is_weekday(dt) == (date_of(dt) % 7) < 5
hour_key(dt) == dt \div HMS(1, 0, 0)
day_key(dt) == date_of(dt)
\* an Optional[float], and an Optional[str] holding a key
NoneNum == [known |-> FALSE, v |-> 0]
Float(v) == [known |-> TRUE, v |-> v]
NoValue == [set |-> FALSE, value |-> 0]
Value(k) == [set |-> TRUE, value |-> k]
\* `x or ""`: the empty string is no key
or_blank(x) == IF x.set THEN x ELSE NoValue

\* AppConfig.market_sessions and AppConfig.daily_close_report_time
market_sessions ==
    <<[start |-> HMS(10, 0, 0), end |-> HMS(12, 30, 0)],
      [start |-> HMS(14, 30, 0), end |-> HMS(16, 30, 0)]>>
daily_close_report_time == HMS(16, 30, 0)
within_sessions(dt, sessions) ==
    \E i \in 1..Len(sessions) :
       sessions[i].start <= time_of(dt) /\ time_of(dt) <= sessions[i].end
is_market_open(dt) == is_weekday(dt) /\ within_sessions(dt, market_sessions)

\* a faulty variant: the last key ignored
should_send_hourly_always(dt, last_sent_hour, require_market_open, market_open) ==
    IF require_market_open /\ ~market_open THEN FALSE ELSE TRUE
should_send_hourly(dt, last_sent_hour, require_market_open, market_open) ==
    IF require_market_open /\ ~market_open THEN FALSE
    ELSE Value(hour_key(dt)) # or_blank(last_sent_hour)
should_send_daily_close(dt, daily_time, last_sent_day) ==
    IF ~is_weekday(dt) THEN FALSE
    ELSE IF time_of(dt) < daily_time THEN FALSE
    ELSE Value(day_key(dt)) # or_blank(last_sent_day)

\* the tables of the database the loop reads and writes; the symbols table
\* holds one symbol, enabled or not
ScanSymbols == {"SET:PTT"}
NoQuote == [present |-> FALSE, volume |-> NoneNum]
ScannerQuote(volume) == [present |-> TRUE, volume |-> volume]
NoAvgRow == [present |-> FALSE, avg5 |-> NoneNum]
AvgCacheRow(avg5) == [present |-> TRUE, avg5 |-> avg5]
NoLatest ==
    [present |-> FALSE, scanned_at |-> 0, vol_today |-> NoneNum,
     avg5 |-> NoneNum, break5 |-> 0]
StateKeys == {"avg_refresh_day", "last_hourly_key", "last_daily_day"}
NoDatabase ==
    [symbols |-> <<>>,
     avg_cache |-> [s \in ScanSymbols |-> NoAvgRow],
     snapshot_latest |-> [s \in ScanSymbols |-> NoLatest],
     events |-> <<>>, reports |-> <<>>,
     state |-> [k \in StateKeys |-> NoValue]]
get_state(d, key) == d.state[key]
set_state(d, key, value) == [d EXCEPT !.state[key] = Value(value)]
get_enabled_symbols(d) == d.symbols
get_avg_cache(d, symbol) == d.avg_cache[symbol]
upsert_avg_cache(d, symbol, avg5) ==
    [d EXCEPT !.avg_cache[symbol] = AvgCacheRow(avg5)]
get_break5(d, symbol) ==
    IF ~d.snapshot_latest[symbol].present THEN FALSE
    ELSE d.snapshot_latest[symbol].break5 # 0
upsert_snapshot(d, symbol, scanned_at, vol_today, avg5, break5) ==
    [d EXCEPT !.snapshot_latest[symbol] =
       [present |-> TRUE, scanned_at |-> scanned_at, vol_today |-> vol_today,
        avg5 |-> avg5, break5 |-> IF break5 THEN 1 ELSE 0]]
insert_event(d, ts, symbol, event_type) ==
    [d EXCEPT !.events =
       Append(@, [ts |-> ts, symbol |-> symbol, event_type |-> event_type])]
insert_report(d, kind, period_start, generated_at) ==
    [d EXCEPT !.reports =
       Append(@, [kind |-> kind, period_start |-> period_start,
                  generated_at |-> generated_at])]

\* refresh_avg_cache: per target, the job raised, or compute_volume_averages
\* gave None, or its averages are stored
RECURSIVE refresh_avg_cache(_, _, _)
refresh_avg_cache(d, symbols, results) ==
    IF symbols = <<>> THEN d
    ELSE LET sym == Head(symbols)
             d1 == IF results[sym].kind \in {"raised", "none"} THEN d
                   ELSE upsert_avg_cache(d, sym, results[sym].avg5)
         IN  refresh_avg_cache(d1, Tail(symbols), results)
missing_avg_cache_symbols(d, symbols) ==
    SelectSeq(symbols, LAMBDA sym : ~get_avg_cache(d, sym).present)

\* lines 114-119: the status of the scan, and whether it is an event
\* a faulty variant: volume at the average counts
break5_at_average(vol_today, avg5) ==
    vol_today.known /\ avg5.known /\ avg5.v > 0 /\ vol_today.v >= avg5.v
break5_of(vol_today, avg5) ==
    vol_today.known /\ avg5.known /\ avg5.v > 0 /\ vol_today.v > avg5.v
\* lines 102-133: one symbol of the scan, then all of them in order
scan_symbol(d, sym, quotes, t) ==
    LET q == quotes[sym]
        avg_row == get_avg_cache(d, sym)
    IN  IF ~q.present \/ ~avg_row.present THEN d
        ELSE LET break5 == break5_of(q.volume, avg_row.avg5)
                 prev_break == get_break5(d, sym)
                 d1 == IF break5 /\ ~prev_break
                       THEN insert_event(d, t, sym, "break5") ELSE d
             IN  upsert_snapshot(d1, sym, t, q.volume, avg_row.avg5, break5)
RECURSIVE scan_symbols(_, _, _, _)
scan_symbols(d, symbols, quotes, t) ==
    IF symbols = <<>> THEN d
    ELSE scan_symbols(scan_symbol(d, Head(symbols), quotes, t),
                      Tail(symbols), quotes, t)

\* lines 80-89: the averages refreshed once a day, or for the symbols without
refresh_of(d, local, symbols, results, t) ==
    LET need_daily_refresh == Value(day_key(t)) # or_blank(local)
        targets == IF need_daily_refresh THEN symbols
                   ELSE missing_avg_cache_symbols(d, symbols)
        d1 == refresh_avg_cache(d, targets, results)
    IN  IF need_daily_refresh
        THEN [db |-> set_state(d1, "avg_refresh_day", day_key(t)),
              local |-> Value(day_key(t))]
        ELSE [db |-> d1, local |-> local]
\* lines 135-166: the hourly report
hourly_of(d, t) ==
    IF should_send_hourly(t, get_state(d, "last_hourly_key"), TRUE, TRUE)
    THEN set_state(insert_report(d, "hourly", hour_key(t) * HMS(1, 0, 0), t),
                   "last_hourly_key", hour_key(t))
    ELSE d
\* lines 168-197: the daily close report
daily_of(d, symbols, t) ==
    IF /\ symbols # <<>>
       /\ should_send_daily_close(t, daily_close_report_time,
                                  get_state(d, "last_daily_day"))
    THEN set_state(insert_report(d, "daily", day_key(t), t),
                   "last_daily_day", day_key(t))
    ELSE d
\* line 80: the pass scans
scanning(d, t) == get_enabled_symbols(d) # <<>> /\ is_market_open(t)
\* lines 76-197: one pass of `while True`
iteration(d, local, t, quotes, results) ==
    LET symbols == get_enabled_symbols(d)
    IN  IF scanning(d, t)
        THEN LET r == refresh_of(d, local, symbols, results, t)
                 d2 == scan_symbols(r.db, symbols, quotes, t)
             IN  [db |-> daily_of(hourly_of(d2, t), symbols, t),
                  local |-> r.local]
        ELSE [db |-> daily_of(d, symbols, t), local |-> local]

\* the clock is read on a Friday, a Saturday and the Monday after, at the
\* edges of a session, of an hour and of the close time
ScanDays == {4, 5, 7}
ScanTimes ==
    {HMS(10, 0, 0), HMS(10, 59, 59), HMS(11, 0, 0), HMS(12, 30, 1),
     HMS(16, 30, 0), HMS(16, 30, 1)}
ScanInstants == {d * HMS(24, 0, 0) + tm : d \in ScanDays, tm \in ScanTimes}
Volumes == {NoneNum, Float(2), Float(3)}
Quotes == {NoQuote} \cup {ScannerQuote(v) : v \in Volumes}
JobResult(kind, avg5) == [kind |-> kind, avg5 |-> avg5]
RefreshResults ==
    {JobResult("raised", NoneNum), JobResult("none", NoneNum)}
      \cup {JobResult("averages", a) : a \in {NoneNum, Float(0), Float(2)}}
MaxScans == 4
NoLoop ==
    [now |-> 0, scans |-> 0, last_avg_refresh_day |-> NoValue,
     quotes |-> [s \in ScanSymbols |-> NoQuote]]

ScanStart(tables) ==
    /\ db \in tables
    /\ loop = NoLoop

\* the units beside the session: one batch of symbols that all come back with
\* the same table, no bundle, no points
IdleBatch == BatchStart({[s \in BatchSymbols |-> Fetched("Leading", 1)]})
IdleCompute == ComputeStart({NoBundle})
IdleHistory == HistoryStart({<<>>})
IdleEma == EmaStart({FlatSeries})
IdleRefs == RefsStart({NoBars})
IdleBreadth == BreadthStart({NoMarket})
IdleFlags == FlagsStart({NoSnapshot})
IdleVolume == VolumeStart({<<>>})
IdleNormaliser == NormaliserStart({NoSymbols})
IdleAlign == AlignStart({NoRaw})
IdleScan == ScanStart({NoDatabase})
UnitsIdle == IdleBatch /\ IdleCompute /\ IdleHistory /\ IdleEma /\ IdleRefs /\ IdleBreadth /\ IdleFlags /\ IdleVolume /\ IdleNormaliser /\ IdleAlign /\ IdleScan

InitWith(deny_lists, disks) == InitApp(deny_lists, disks) /\ UnitsIdle

\* the deny-list is empty, as in app.py, or names one symbol
Init == InitWith({{}, {"SET:PTT"}}, InitDisks)
\* one symbol of the universe is on the deny-list; the cache is empty
InitGen == InitWith({{"SET:PTT"}}, {[k \in CacheKeys |-> NoFile]})

\* time passes between script runs (a run is short against the TTL period)
Tick ==
    /\ now < MaxNow
    /\ pc = "idle"
    /\ now' = now + 1
    /\ UNCHANGED <<UNAVAILABLE_TV_SYMBOLS, disk, sessionVars, runVars, unitVars>>

\* ---------------------------------------------------------------- _fetch_one
Running == {s \in Symbols : jobs[s].pc = "try"}

\* a job runs on the main thread (benchmark, retry) or on a pool worker
MayRun(s) ==
    \/ pc = "bench" /\ s = Benchmark
    \/ pc = "pool" /\ s \in UniverseSet
       /\ (jobs[s].pc = "try" \/ Cardinality(Running) < safe_workers)
    \/ pc = "retry" /\ s = retrying

\* return: the loop's locals are gone
Finish(job, df, err) ==
    [job EXCEPT !.pc = "done", !.df = df, !.err = err, !.cand = 0,
                !.candidate_symbol = "", !.attempt = 0, !.last_err = NoneMsg]
\* the loop over candidates starts at its head
EnterLoop(job, symbol) ==
    [job EXCEPT !.pc = "try", !.cand = 1, !.attempt = 0,
                !.candidate_symbol = candidates(symbol)[1]]

\* lines 636-644: the deny-list, then the cache unless refresh
\* a faulty variant: the cache consulted before the deny-list
fetch_one_enter_cache_first(job, symbol, deny, d, t) ==
    LET r == get_df(d, cache_key(symbol, symbol), t, ttl_seconds)
        j1 == [job EXCEPT !.reads = 1]
    IN  IF ~job.refresh /\ ~r.raised /\ r.df # NoTable
        THEN Finish(j1, r.df, NoneMsg)
        ELSE IF symbol \in deny THEN Finish(j1, NoTable, MsgUnavailable)
        ELSE EnterLoop(j1, symbol)
\* a faulty variant: the cache never consulted
fetch_one_enter_ignore_cache(job, symbol, deny, d, t) ==
    IF symbol \in deny THEN Finish(job, NoTable, MsgUnavailable)
    ELSE EnterLoop(job, symbol)
fetch_one_enter(job, symbol, deny, d, t) ==
    IF symbol \in deny THEN Finish(job, NoTable, MsgUnavailable)
    ELSE IF job.refresh THEN EnterLoop(job, symbol)
    ELSE LET r == get_df(d, cache_key(symbol, symbol), t, ttl_seconds)
             j1 == [job EXCEPT !.reads = 1]
         IN  IF r.raised THEN [j1 EXCEPT !.pc = "raised"]
             ELSE IF r.df # NoTable THEN Finish(j1, r.df, NoneMsg)
             ELSE EnterLoop(j1, symbol)

FetchStart(s) ==
    /\ jobs[s].pc = "start"
    /\ MayRun(s)
    /\ jobs' = [jobs EXCEPT ![s] =
                  fetch_one_enter(jobs[s], s, UNAVAILABLE_TV_SYMBOLS, disk, now)]
    /\ UNCHANGED <<UNAVAILABLE_TV_SYMBOLS, disk, now, sessionVars, unitVars,
                   pc, force_refresh, bench_df, closes, ohlcv, errors,
                   collected, timeout_symbols, retrying, retried>>

\* lines 655-663: what follows a failed attempt
NextAttempt(job) == [job EXCEPT !.attempt = job.attempt + 1]
NextCandidate(job, symbol) ==
    [job EXCEPT !.cand = job.cand + 1, !.attempt = 0,
                !.candidate_symbol = candidates(symbol)[job.cand + 1]]

\* a faulty variant: the first error kept instead of the last
after_error_keep_first(job, symbol, msg) ==
    LET j1 == [job EXCEPT !.last_err =
                 IF job.last_err = NoneMsg THEN msg ELSE job.last_err]
    IN  IF job.attempt < (retry_attempts - 1) /\ retryable(msg)
        THEN NextAttempt(j1)
        ELSE IF job.cand < Len(candidates(symbol))
        THEN NextCandidate(j1, symbol)
        ELSE Finish(j1, NoTable,
                    IF j1.last_err = MsgEmpty THEN MsgUnknown ELSE j1.last_err)
\* a faulty variant: every error retried
after_error_retry_all(job, symbol, msg) ==
    LET j1 == [job EXCEPT !.last_err = msg]
    IN  IF job.attempt < (retry_attempts - 1)
        THEN NextAttempt(j1)
        ELSE IF job.cand < Len(candidates(symbol))
        THEN NextCandidate(j1, symbol)
        ELSE Finish(j1, NoTable, IF msg = MsgEmpty THEN MsgUnknown ELSE msg)
after_error(job, symbol, msg) ==
    LET j1 == [job EXCEPT !.last_err = msg]
    IN  IF job.attempt < (retry_attempts - 1) /\ retryable(msg)
        THEN NextAttempt(j1)
        ELSE IF job.cand < Len(candidates(symbol))
        THEN NextCandidate(j1, symbol)
        ELSE Finish(j1, NoTable, IF msg = MsgEmpty THEN MsgUnknown ELSE msg)

\* lines 652-654: a response is stored under the requested symbol's key and
\* returned
\* a faulty variant: the response returned but not stored
after_response_no_store(job, symbol, d, df, t) ==
    [disk |-> d,
     job |-> Finish([job EXCEPT !.writes = job.writes + 1], df, NoneMsg)]
after_response(job, symbol, d, df, t) ==
    [disk |-> set_df(d, cache_key(symbol, job.candidate_symbol), df, t),
     job |-> Finish([job EXCEPT !.writes = job.writes + 1], df, NoneMsg)]

\* lines 649-655: the try block and its except clause; the except clause does
\* not touch the cache
\* a faulty variant: a failed attempt removes the entry of the key
attempt_once_evicting(job, symbol, d, out, t) ==
    IF out.ok THEN after_response(job, symbol, d, out.df, t)
    ELSE [disk |-> [d EXCEPT ![cache_key(symbol, job.candidate_symbol)] = NoFile],
          job |-> after_error(job, symbol, out.msg)]
attempt_once(job, symbol, d, out, t) ==
    IF out.ok THEN after_response(job, symbol, d, out.df, t)
    ELSE [disk |-> d, job |-> after_error(job, symbol, out.msg)]

\* lines 649-663: one client call for the current candidate
FetchAttempt(s, outcomes) ==
    /\ jobs[s].pc = "try"
    /\ MayRun(s)
    /\ \E out \in outcomes :
         LET job == [jobs[s] EXCEPT !.calls = jobs[s].calls + 1,
                                    !.resp = out]
             r == attempt_once(job, s, disk, out, now)
         IN  /\ disk' = r.disk
             /\ jobs' = [jobs EXCEPT ![s] = r.job]
    /\ UNCHANGED <<UNAVAILABLE_TV_SYMBOLS, now, sessionVars, unitVars,
                   pc, force_refresh, bench_df, closes, ohlcv, errors,
                   collected, timeout_symbols, retrying, retried>>

\* -------------------------------------------------------------- alignment
\* _align_close: a table without a close column raises ValueError; the
\* aligned series is held as the table it was taken from
align_close(df) ==
    IF "close" \notin df.cols
    THEN [raised |-> TRUE, msg |-> MsgMissingClose, close |-> NoTable]
    ELSE [raised |-> FALSE, msg |-> NoneMsg, close |-> df]

\* `err or "Unknown error"`
OrUnknown(err) == IF err \in {NoneMsg, MsgEmpty} THEN MsgUnknown ELSE err

\* main, lines 1827-1837: the result of one pooled job
\* [closes, ohlcv, errors] after the result (df, err) of symbol sym
\* a faulty variant: a failed fetch leaves no error entry
record_result_drop_error(c, o, e, sym, df, err) ==
    IF df # NoTable
    THEN LET a == align_close(df)
         IN  [closes |-> IF a.raised THEN c ELSE [c EXCEPT ![sym] = a.close],
              ohlcv |-> [o EXCEPT ![sym] = df],
              errors |-> IF a.raised THEN [e EXCEPT ![sym] = a.msg] ELSE e]
    ELSE [closes |-> c, ohlcv |-> o, errors |-> e]
record_result(c, o, e, sym, df, err) ==
    IF df # NoTable
    THEN LET a == align_close(df)
         IN  [closes |-> IF a.raised THEN c ELSE [c EXCEPT ![sym] = a.close],
              ohlcv |-> [o EXCEPT ![sym] = df],
              errors |-> IF a.raised THEN [e EXCEPT ![sym] = a.msg] ELSE e]
    ELSE [closes |-> c, ohlcv |-> o,
          errors |-> [e EXCEPT ![sym] = OrUnknown(err)]]

\* main, lines 1854-1862: the result of one sequential retry
record_retry(c, o, e, sym, df, err) ==
    IF df # NoTable
    THEN LET a == align_close(df)
         IN  [closes |-> IF a.raised THEN c ELSE [c EXCEPT ![sym] = a.close],
              ohlcv |-> [o EXCEPT ![sym] = df],
              errors |-> [e EXCEPT ![sym] = IF a.raised THEN a.msg ELSE NoneMsg]]
    ELSE [closes |-> c, ohlcv |-> o,
          errors |-> [e EXCEPT ![sym] =
                        IF err \in {NoneMsg, MsgEmpty}
                        THEN (IF e[sym] = NoneMsg THEN MsgUnknown ELSE e[sym])
                        ELSE err]]

\* ------------------------------------------------------ _compute_rrg_bundle
MsgNotEnoughBars == "Not enough aligned bars"
\* a faulty variant: the reason of the branch above it
MsgNotEnoughWindow_bars == "Not enough aligned bars"
MsgNotEnoughWindow == "Not enough high-window data"
MsgConvert == "could not convert string to float"
\* a faulty variant: the column is always named as high
MsgMissingOhlcv_high(col) == "Missing OHLCV high data"
MsgMissingOhlcv(col) ==
    IF col = "low" THEN "Missing OHLCV low data" ELSE "Missing OHLCV high data"
MsgMissingBenchOhlcv(col) ==
    IF col = "low" THEN "Missing benchmark OHLCV low data"
    ELSE "Missing benchmark OHLCV high data"

\* len(pd.concat({"sym": close, "bench": bench_close}, join="inner").dropna())
merged_bars(close, bench_close) == Min(close.bars, bench_close.bars)

\* rows of the EMA model's frame: one per aligned bar
ema_rows(close, bench_close) == merged_bars(close, bench_close)

\* rows of a window model's frame: none when a rolling-reference map is
\* empty; else the aligned bars that have a reference for both series and a
\* predecessor mom_lookback bars back that has one too
window_rows(close, bench_close, series, bench_series, mom_lookback) ==
    IF series.bars <= series.lead \/ bench_series.bars <= bench_series.lead
    THEN 0
    ELSE Max(0, merged_bars(close, bench_close)
                  - Max(series.lead, bench_series.lead) - Max(1, mom_lookback))

Row(n, close, bench_close, model_id) ==
    [rows |-> n, sym |-> close.id, bench |-> bench_close.id, model |-> model_id]
Skip(msg) == [row |-> NoRow, err |-> msg]
Keep(row) == [row |-> row, err |-> NoneMsg]

\* line 750: `if aligned_bars < 25`
\* a faulty variant: the threshold of the scenario, 20 bars
too_few_bars_20(aligned_bars) == aligned_bars < 20
too_few_bars(aligned_bars) == aligned_bars < MinAlignedBars

\* lines 704-782: the body of the loop over closes.items(), for one symbol
compute_symbol(close, bench_close, df_sym, bench_ohlcv, model_id, mom_len) ==
    IF merged_bars(close, bench_close) = 0 THEN Skip(MsgNotEnoughBars)
    ELSE IF model_id \in {"3m_high", "52w_high", "52w_low"}
    THEN LET need_col == IF model_id = "52w_low" THEN "low" ELSE "high"
         IN  IF df_sym = NoTable \/ df_sym.bars = 0 \/ need_col \notin df_sym.cols
             THEN Skip(MsgMissingOhlcv(need_col))
             ELSE IF bench_ohlcv = NoTable \/ bench_ohlcv.bars = 0
                     \/ need_col \notin bench_ohlcv.cols
             THEN Skip(MsgMissingBenchOhlcv(need_col))
             ELSE IF ~close.numeric \/ ~bench_close.numeric
             THEN Skip(MsgConvert)
             ELSE LET n == window_rows(close, bench_close, df_sym, bench_ohlcv, mom_len)
                  IN  IF n = 0 THEN Skip(MsgNotEnoughWindow)
                      ELSE Keep(Row(n, close, bench_close, model_id))
    ELSE IF too_few_bars(merged_bars(close, bench_close))
         THEN Skip(MsgNotEnoughBars)
         ELSE IF ~close.numeric \/ ~bench_close.numeric
         THEN Skip(MsgConvert)
         ELSE LET n == ema_rows(close, bench_close)
              IN  IF n = 0 THEN Skip(MsgNotEnoughBars)
                  ELSE Keep(Row(n, close, bench_close, model_id))

\* _compute_rrg_bundle: (table, errors) over the symbols that have a close
compute_rrg_bundle(c, bench_close, o, bench_ohlcv, model_id, mom_len) ==
    LET r == [s \in UniverseSet |->
                IF c[s] = NoTable THEN Skip(NoneMsg)
                ELSE compute_symbol(c[s], bench_close, o[s], bench_ohlcv,
                                    model_id, mom_len)]
    IN  [present |-> TRUE,
         table |-> [s \in UniverseSet |-> r[s].row],
         errors |-> [s \in UniverseSet |-> r[s].err]]

\* main, lines 1934-1963: the lengths in force for a model (daily timeframe)
ratio_len(model_id) == IF model_id = "ema" THEN rrg_ratio_len ELSE 0
mom_len(model_id) == IF model_id = "ema" THEN rrg_mom_len ELSE rrg_mom_lookback

\* main, line 1974: the key of the in-memory RRG cache
\* a faulty variant: the key without the generation
rrg_cache_key_no_gen(gen, model_id) ==
    <<0, Universe, model_id, ratio_len(model_id), mom_len(model_id), rrg_tail_len>>
rrg_cache_key(gen, model_id) ==
    <<gen, Universe, model_id, ratio_len(model_id), mom_len(model_id), rrg_tail_len>>

\* main, lines 1972-1996: look the result up or compute and remember it
Render(bundle, gen, model_id) ==
    LET key == rrg_cache_key(gen, model_id)
        hit == key \in DOMAIN rrg_cache
        res == IF hit THEN rrg_cache[key]
               ELSE compute_rrg_bundle(bundle.closes, bundle.bench, bundle.ohlcv,
                                       bundle.bench, model_id, mom_len(model_id))
    IN  /\ rrg_cache' = IF hit THEN rrg_cache
                        ELSE [k \in DOMAIN rrg_cache \cup {key} |->
                                IF k = key THEN res ELSE rrg_cache[k]]
        /\ rrg_shown' = res

\* the as-of day of the bundle, from which the mark tables take the start of
\* the current month and week
RefDay == "asof"
\* _breadth_window_bars for the daily timeframe
window_bars == 252

\* main, lines 2120, 2154, 2187, 2223 and 2877: the keys of the other caches
aux_cache_key(c, gen) ==
    CASE c = "breadth_symbols_cache" -> <<gen, Universe, RefDay, window_bars>>
      [] c = "breadth_cache" -> <<gen, Universe, "Daily", window_bars>>
      [] OTHER -> <<gen, RefDay>>

\* the table such a cache holds is computed from the bundle's closes and ohlcv
aux_compute(c, bundle) ==
    [closes |-> IF c \in {"breadth_symbols_cache", "breadth_cache"}
                THEN [s \in UniverseSet |-> bundle.closes[s].id]
                ELSE <<>>,
     ohlcv |-> [s \in UniverseSet |-> bundle.ohlcv[s].id]]

\* main, lines 2115-2235 and 2875-2884: look each table up or compute it
RenderAux(bundle, gen) ==
    LET key(c) == aux_cache_key(c, gen)
        hit(c) == key(c) \in DOMAIN aux_cache[c]
        res(c) == IF hit(c) THEN aux_cache[c][key(c)] ELSE aux_compute(c, bundle)
    IN  /\ aux_cache' =
             [c \in AuxCaches |->
                IF hit(c) THEN aux_cache[c]
                ELSE [k \in DOMAIN aux_cache[c] \cup {key(c)} |->
                        IF k = key(c) THEN res(c) ELSE aux_cache[c][k]]]
        /\ aux_shown' = [c \in AuxCaches |-> res(c)]

\* --------------------------------------------------------------------- main
ResetRun ==
    /\ pc' = "idle"
    /\ force_refresh' = FALSE
    /\ jobs' = [s \in Symbols |-> NoJob]
    /\ bench_df' = NoTable
    /\ closes' = [s \in UniverseSet |-> NoTable]
    /\ ohlcv' = [s \in UniverseSet |-> NoTable]
    /\ errors' = [s \in UniverseSet |-> NoneMsg]
    /\ collected' = {}
    /\ timeout_symbols' = {}
    /\ retrying' = ""
    /\ retried' = [s \in UniverseSet |-> 0]

\* lines 1753-1757
auto_fetch(fetch_clicked) ==
    ~fetch_clicked /\ ~auto_fetch_attempted /\ ~data_bundle.present

\* lines 1759-1788: a script run that fetches starts with the benchmark
main_fetch(fetch_clicked, refresh, max_gen) ==
    /\ pc = "idle"
    /\ fetch_clicked \/ auto_fetch(fetch_clicked)
    /\ data_gen < max_gen
    /\ auto_fetch_attempted' =
         IF auto_fetch(fetch_clicked) THEN TRUE ELSE auto_fetch_attempted
    /\ pc' = "bench"
    /\ force_refresh' = refresh
    /\ jobs' = [jobs EXCEPT ![Benchmark] = NewJob(refresh)]
    /\ st_error' = NoneMsg
    /\ UNCHANGED <<UNAVAILABLE_TV_SYMBOLS, disk, now, unitVars, data_bundle,
                   data_gen, rrg_cache, aux_cache, aux_shown, rrg_shown,
                   rrg_model_id, bench_df, closes, ohlcv, errors, collected,
                   timeout_symbols, retrying, retried>>

\* lines 1789-1823: a failed benchmark ends the run; else every symbol of
\* the universe is submitted to the pool
\* a faulty variant: the benchmark result not tested
submit_anyway(job) == FALSE
bench_failed(job) == job.err # NoneMsg \/ job.df = NoTable

main_bench_done ==
    /\ pc = "bench"
    /\ jobs[Benchmark].pc \in {"done", "raised"}
    /\ IF jobs[Benchmark].pc = "raised"
       THEN /\ st_error' = "exception"
            /\ ResetRun
       ELSE IF bench_failed(jobs[Benchmark])
       THEN /\ st_error' = OrUnknown(jobs[Benchmark].err)
            /\ ResetRun
       ELSE IF align_close(jobs[Benchmark].df).raised
       THEN /\ st_error' = align_close(jobs[Benchmark].df).msg
            /\ ResetRun
       ELSE /\ st_error' = NoneMsg
            /\ pc' = "pool"
            /\ bench_df' = jobs[Benchmark].df
            /\ jobs' = [s \in Symbols |->
                          IF s \in UniverseSet THEN NewJob(force_refresh)
                          ELSE NoJob]
            /\ UNCHANGED <<force_refresh, closes, ohlcv, errors, collected,
                           timeout_symbols, retrying, retried>>
    /\ UNCHANGED <<UNAVAILABLE_TV_SYMBOLS, disk, now, unitVars, data_bundle,
                   data_gen, rrg_cache, aux_cache, aux_shown, rrg_shown,
                   rrg_model_id, auto_fetch_attempted>>

\* lines 1826-1837: as_completed yields a finished job
main_collect(s) ==
    /\ pc = "pool"
    /\ s \in UniverseSet \ collected
    /\ jobs[s].pc \in {"done", "raised"}
    /\ IF jobs[s].pc = "raised"
       THEN /\ st_error' = "exception"
            /\ ResetRun
       ELSE LET r == record_result(closes, ohlcv, errors, s, jobs[s].df, jobs[s].err)
            IN  /\ closes' = r.closes
                /\ ohlcv' = r.ohlcv
                /\ errors' = r.errors
                /\ collected' = collected \cup {s}
                /\ jobs' = [jobs EXCEPT ![s] = NoJob]
                /\ UNCHANGED <<st_error, pc, force_refresh, bench_df,
                               timeout_symbols, retrying, retried>>
    /\ UNCHANGED <<UNAVAILABLE_TV_SYMBOLS, disk, now, unitVars, data_bundle,
                   data_gen, rrg_cache, aux_cache, aux_shown, rrg_shown,
                   rrg_model_id, auto_fetch_attempted>>

\* lines 1839-1841, once the pool has shut down
main_pool_exit ==
    /\ pc = "pool"
    /\ collected = UniverseSet
    /\ pc' = "retry"
    /\ timeout_symbols' =
         {s \in UniverseSet : errors[s] # NoneMsg /\ is_timeout_symbol(errors[s])}
    /\ UNCHANGED <<UNAVAILABLE_TV_SYMBOLS, disk, now, unitVars, sessionVars,
                   force_refresh, jobs, bench_df, closes, ohlcv, errors,
                   collected, retrying, retried>>

\* lines 1844-1853: the next timed-out symbol is fetched again, refresh forced
retry_refresh(f) == TRUE

main_retry_start(s) ==
    /\ pc = "retry"
    /\ retrying = ""
    /\ s \in timeout_symbols
    /\ retrying' = s
    /\ timeout_symbols' = timeout_symbols \ {s}
    /\ retried' = [retried EXCEPT ![s] = retried[s] + 1]
    /\ jobs' = [jobs EXCEPT ![s] = NewJob(retry_refresh(force_refresh))]
    /\ UNCHANGED <<UNAVAILABLE_TV_SYMBOLS, disk, now, unitVars, sessionVars,
                   pc, force_refresh, bench_df, closes, ohlcv, errors, collected>>

\* lines 1854-1862
main_retry_done ==
    /\ pc = "retry"
    /\ retrying # ""
    /\ jobs[retrying].pc \in {"done", "raised"}
    /\ IF jobs[retrying].pc = "raised"
       THEN /\ st_error' = "exception"
            /\ ResetRun
       ELSE LET r == record_retry(closes, ohlcv, errors, retrying,
                                  jobs[retrying].df, jobs[retrying].err)
            IN  /\ closes' = r.closes
                /\ ohlcv' = r.ohlcv
                /\ errors' = r.errors
                /\ retrying' = ""
                /\ jobs' = [jobs EXCEPT ![retrying] = NoJob]
                /\ UNCHANGED <<st_error, pc, force_refresh, bench_df,
                               collected, timeout_symbols, retried>>
    /\ UNCHANGED <<UNAVAILABLE_TV_SYMBOLS, disk, now, unitVars, data_bundle,
                   data_gen, rrg_cache, aux_cache, aux_shown, rrg_shown,
                   rrg_model_id, auto_fetch_attempted>>

\* lines 1866-1883: the bundle is stored and the generation advances
next_gen(gen) == gen + 1

main_store ==
    /\ pc = "retry"
    /\ retrying = ""
    /\ timeout_symbols = {}
    /\ data_bundle' = [present |-> TRUE, bench |-> bench_df, closes |-> closes,
                       ohlcv |-> ohlcv, errors |-> errors]
    /\ data_gen' = next_gen(data_gen)
    /\ pc' = "render"
    /\ UNCHANGED <<UNAVAILABLE_TV_SYMBOLS, disk, now, unitVars, rrg_cache,
                   aux_cache, aux_shown, rrg_shown, rrg_model_id,
                   auto_fetch_attempted, st_error,
                   force_refresh, jobs, bench_df, closes, ohlcv, errors,
                   collected, timeout_symbols, retrying, retried>>

\* lines 1885-1996, at the end of a run that fetched
main_render ==
    /\ pc = "render"
    /\ Render(data_bundle, data_gen, rrg_model_id)
    /\ RenderAux(data_bundle, data_gen)
    /\ ResetRun
    /\ UNCHANGED <<UNAVAILABLE_TV_SYMBOLS, disk, now, unitVars, data_bundle,
                   data_gen, rrg_model_id, auto_fetch_attempted, st_error>>

\* a script run without a fetch: the model selector, shown once a bundle is
\* stored, was changed; lines 1885-1996
main_rerun(model_id) ==
    /\ pc = "idle"
    /\ data_bundle.present
    /\ rrg_model_id' = model_id
    /\ st_error' = NoneMsg
    /\ Render(data_bundle, data_gen, model_id)
    /\ RenderAux(data_bundle, data_gen)
    /\ UNCHANGED <<UNAVAILABLE_TV_SYMBOLS, disk, now, unitVars, data_bundle,
                   data_gen, auto_fetch_attempted, runVars>>

\* --------------------------------------------------- the disk cache alone
\* DiskCache.get_df(key, ttl_seconds=ttl)
CacheGet(key, ttl) ==
    /\ cache_got' = Got(key, ttl, now, get_df(disk, key, now, ttl))
    /\ UNCHANGED <<appVars, cache_put, cache_last, notCache>>

\* DiskCache.set_df(key, df)
CacheSet(key, df) ==
    /\ disk' = set_df(disk, key, df, now)
    /\ cache_put' = [cache_put EXCEPT ![key] = Put(df, now)]
    /\ cache_last' = Last(key, cache_put[key])
    /\ UNCHANGED <<UNAVAILABLE_TV_SYMBOLS, now, sessionVars, runVars, cache_got,
                   notCache>>

\* the file of a key is damaged on disk: pickle.load will raise on it
EnvCorrupt(key) ==
    /\ disk[key].kind # "corrupt"
    /\ disk' = [disk EXCEPT ![key] = CorruptFile]
    /\ cache_put' = [cache_put EXCEPT ![key] = NoPut]
    /\ cache_last' = IF cache_last.key = key THEN NoLast ELSE cache_last
    /\ UNCHANGED <<UNAVAILABLE_TV_SYMBOLS, now, sessionVars, runVars, cache_got,
                   notCache>>

\* ttl_seconds of a direct call: none, the configured one, and one no entry
\* outlives (float("inf"))
TtlUnbounded == MaxNow + 1
TtlChoices == {0, ttl_seconds, TtlUnbounded}
CacheTables == {TGood, TShort}

NextCache ==
    \/ Tick
    \/ \E k \in CacheKeys, ttl \in TtlChoices : CacheGet(k, ttl)
    \/ \E k \in CacheKeys, df \in CacheTables : CacheSet(k, df)
    \/ \E k \in CacheKeys : EnvCorrupt(k)

InitCache == InitWith({{}}, {[k \in CacheKeys |-> NoFile]})
SpecCache == InitCache /\ [][NextCache]_vars

\* the models the selector is moved between
RerunModels == {"ema", "52w_low"}

Orchestrator(outcomes, max_gen) ==
    \/ Tick
    \/ \E s \in Symbols : FetchStart(s)
    \/ \E s \in Symbols : FetchAttempt(s, outcomes)
    \/ \E c \in BOOLEAN, r \in BOOLEAN : main_fetch(c, r, max_gen)
    \/ main_bench_done
    \/ \E s \in UniverseSet : main_collect(s)
    \/ main_pool_exit
    \/ \E s \in UniverseSet : main_retry_start(s)
    \/ main_retry_done
    \/ main_store
    \/ main_render
    \/ \E m \in RerunModels : main_rerun(m)

\* a session up to its first stored fetch and the reruns after it, under
\* the full quote client
Next == Orchestrator(ClientOutcomes, MaxGen)
Spec == Init /\ [][Next]_vars

\* a session of several fetches, under the reduced quote client
NextGen == Orchestrator(LiteOutcomes, MaxGenLite)
SpecGen == InitGen /\ [][NextGen]_vars

\* ------------------------------------------- DiskCache under worker threads
\* set_df, `with open(path, "wb") as f`: the file is created or truncated
set_df_open(w, key, df) ==
    /\ threads[w].pc = "idle"
    /\ threads[w].sets < MaxSets
    /\ files' = [files EXCEPT ![path_for_key(key)] =
                    [exists |-> TRUE, bytes |-> <<>>]]
    /\ threads' = [threads EXCEPT ![w] = Writing(key, df, 0, threads[w].sets)]
    /\ UNCHANGED <<appVars, finished, race_got, notRace>>

\* set_df, pickle.dump: the next block is written at this thread's offset
set_df_write(w) ==
    LET t == threads[w]
        p == path_for_key(t.key)
    IN  /\ t.pc = "writing"
        /\ t.pos < NBlocks
        /\ files' = [files EXCEPT ![p].bytes =
                        write_at(@, t.pos + 1, Block(Payload(now, t.df), t.pos + 1))]
        /\ threads' = [threads EXCEPT ![w].pos = t.pos + 1]
        /\ UNCHANGED <<appVars, finished, race_got, notRace>>

\* set_df, the end of the with block: the call returns
set_df_close(w) ==
    LET t == threads[w]
    IN  /\ t.pc = "writing"
        /\ t.pos = NBlocks
        /\ threads' = [threads EXCEPT ![w] = Idle(t.sets + 1)]
        /\ finished' = [finished EXCEPT ![t.key] = @ \cup {t.df}]
        /\ UNCHANGED <<appVars, files, race_got, notRace>>

\* what get_df(key) may return on the directory as it is
race_get(fs, key) ==
    {get_df((key :> file), key, now, TtlUnbounded) :
        file \in load(fs[path_for_key(key)])}

\* get_df(key) by a thread beside the writers
RaceGet(key) ==
    /\ \E r \in race_get(files, key) :
          race_got' = Got(key, TtlUnbounded, now, r)
    /\ UNCHANGED <<appVars, files, threads, finished, notRace>>

NextRace ==
    \/ \E w \in Writers, k \in RaceKeys, df \in CacheTables : set_df_open(w, k, df)
    \/ \E w \in Writers : set_df_write(w)
    \/ \E w \in Writers : set_df_close(w)
    \/ \E k \in RaceKeys : RaceGet(k)

SpecRace == InitCache /\ [][NextRace]_vars

\* ------------------------------------------------- one batch, job by job
\* one turn of `for job in futures.as_completed(jobs)`: a job that has
\* finished is yielded and its result is filed under closes or errors
as_completed(s) ==
    /\ batch_pc = "pool"
    /\ s \notin completed
    /\ completed' = completed \cup {s}
    /\ IF outcome[s].kind = "ok"
       THEN /\ closes_keys' = Append(closes_keys, s)
            /\ UNCHANGED errors_keys
       ELSE /\ errors_keys' = Append(errors_keys, s)
            /\ UNCHANGED closes_keys
    /\ UNCHANGED <<appVars, outcome, batch_pc, ranked, notBatch>>

\* the sequential retry of the timed-out symbols, in the order of errors:
\* a symbol that now succeeds is added to closes and leaves errors
batch_retry ==
    /\ batch_pc = "pool"
    /\ completed = BatchSymbols
    /\ closes_keys' =
          closes_keys \o SelectSeq(errors_keys, LAMBDA s : outcome[s].kind = "late")
    /\ errors_keys' = SelectSeq(errors_keys, LAMBDA s : outcome[s].kind # "late")
    /\ batch_pc' = "fetched"
    /\ UNCHANGED <<appVars, outcome, completed, ranked, notBatch>>

\* _compute_rrg_bundle: one row per item of closes, in the order of
\* closes.items(), then the sort
batch_compute ==
    /\ batch_pc = "fetched"
    /\ ranked' = sort_values(closes_keys, outcome)
    /\ batch_pc' = "shown"
    /\ UNCHANGED <<appVars, outcome, completed, closes_keys, errors_keys, notBatch>>

NextBatch ==
    \/ \E s \in BatchSymbols : as_completed(s)
    \/ batch_retry
    \/ batch_compute

InitBatch ==
    /\ InitApp({{}}, {[k \in CacheKeys |-> NoFile]})
    /\ BatchStart([BatchSymbols -> BatchOutcomes])
    /\ IdleCompute /\ IdleHistory /\ IdleEma /\ IdleRefs /\ IdleBreadth /\ IdleFlags /\ IdleVolume /\ IdleNormaliser /\ IdleAlign /\ IdleScan
SpecBatch == InitBatch /\ [][NextBatch]_vars

\* ------------------------------------------- _compute_rrg_bundle on its own
\* the tables a fetch may have left for a symbol, and for the benchmark
ComputeTables == {T20, TShort, T25, TGood, TNoLow, TNoHigh, TYoung, TBad}
BenchTables == {TGood, TNoLow, TYoung}

\* the bundle main builds from the benchmark's table and one table per
\* symbol, recorded in the order of the universe
RECURSIVE Recorded(_, _)
Recorded(dfs, n) ==
    IF n = 0 THEN [closes |-> NoBundle.closes, ohlcv |-> NoBundle.ohlcv,
                   errors |-> NoBundle.errors]
    ELSE LET r == Recorded(dfs, n - 1)
         IN  record_result(r.closes, r.ohlcv, r.errors, Universe[n],
                           dfs[Universe[n]], NoneMsg)
Bundle(bench, dfs) ==
    LET r == Recorded(dfs, Len(Universe))
    IN  [present |-> TRUE, bench |-> bench, closes |-> r.closes,
         ohlcv |-> r.ohlcv, errors |-> r.errors]
ComputeBundles ==
    {Bundle(b, dfs) : b \in BenchTables, dfs \in [UniverseSet -> ComputeTables]}

\* main, lines 1979-1989: the call of _compute_rrg_bundle for a model
ComputeBundle(model_id) ==
    /\ computed' =
          [model |-> model_id,
           result |-> compute_rrg_bundle(given.closes, given.bench, given.ohlcv,
                                         given.bench, model_id, mom_len(model_id))]
    /\ UNCHANGED <<appVars, given, notCompute>>

NextCompute == \E m \in ModelIds : ComputeBundle(m)
InitCompute ==
    /\ InitApp({{}}, {[k \in CacheKeys |-> NoFile]})
    /\ ComputeStart(ComputeBundles)
    /\ IdleBatch /\ IdleHistory /\ IdleEma /\ IdleRefs /\ IdleBreadth /\ IdleFlags /\ IdleVolume /\ IdleNormaliser /\ IdleAlign /\ IdleScan
SpecCompute == InitCompute /\ [][NextCompute]_vars

\* ------------------------------------------------- the rows of a history
\* how many dates a series has at most, and the values of rs_ratio and rs_mom
\* on them (100 is parity with the benchmark)
MaxRows == 3
Values == 99..101
Point(x, y) == [rs_ratio |-> x, rs_mom |-> y]
PointSeries ==
    UNION {[1..n -> {Point(x, y) : x \in Values, y \in Values}] : n \in 0..MaxRows}

\* Series.diff(): the first row has no predecessor and gets NaN
\* a faulty variant: the difference from the first row
diff_from_first(col, i) == IF i = 1 THEN NaN ELSE Num(col[i] - col[1])
diff(col, i) == IF i = 1 THEN NaN ELSE Num(col[i] - col[i - 1])

\* dx ** 2 + dy ** 2, NaN when either is; speed and distance are held as
\* their squares, the square root of which the code takes
sum_sq(dx, dy) ==
    IF dx.nan \/ dy.nan THEN NaN ELSE Num(dx.v * dx.v + dy.v * dy.v)

\* the rows every model builds once rs_ratio and rs_mom exist
\* (compute_rrg_for_symbol lines 40-65, and the same lines in each window
\* model): the frame after dropna keeps all its rows
rrg_frame(pts) ==
    LET xs == [i \in 1..Len(pts) |-> pts[i].rs_ratio]
        ys == [i \in 1..Len(pts) |-> pts[i].rs_mom]
    IN  [i \in 1..Len(pts) |->
           [rs_ratio |-> xs[i],
            rs_mom |-> ys[i],
            d_rs_ratio |-> diff(xs, i),
            d_rs_mom |-> diff(ys, i),
            speed_sq |-> sum_sq(diff(xs, i), diff(ys, i)),
            quadrant |-> quadrant(xs[i], ys[i]),
            distance_sq |-> sum_sq(Num(xs[i] - 100), Num(ys[i] - 100)).v]]

\* symbol_rrgs[sym] = rrg_df: the Symbol History of a symbol under a model
ComputeHistory(model_id) ==
    /\ history' = [model |-> model_id, rows |-> rrg_frame(points)]
    /\ UNCHANGED <<appVars, points, notHistory>>

NextHistory == \E m \in ModelIds : ComputeHistory(m)
InitHistory ==
    /\ InitApp({{}}, {[k \in CacheKeys |-> NoFile]})
    /\ HistoryStart(PointSeries)
    /\ IdleBatch /\ IdleCompute /\ IdleEma /\ IdleRefs /\ IdleBreadth /\ IdleFlags /\ IdleVolume /\ IdleNormaliser /\ IdleAlign /\ IdleScan
SpecHistory == InitHistory /\ [][NextHistory]_vars

\* ----------------------------------------------- the EMA model, bar by bar
\* the series of the scenario and some beside it
EmaInputs ==
    {Closes(100, last, l[1], l[2]) :
        last \in {50, 100, 150, 200},
        l \in {<<20, 10>>, <<rrg_ratio_len, rrg_mom_len>>}}

\* the next row of the frame
EmaBar ==
    /\ ema.t < default_bars - 1
    /\ ema' = frame_at(ema_series, ema.t + 1, ema)
    /\ UNCHANGED <<appVars, ema_series, notEma>>

NextEma == EmaBar
InitEma ==
    /\ InitApp({{}}, {[k \in CacheKeys |-> NoFile]})
    /\ EmaStart(EmaInputs)
    /\ IdleBatch /\ IdleCompute /\ IdleHistory /\ IdleRefs /\ IdleBreadth /\ IdleFlags /\ IdleVolume /\ IdleNormaliser /\ IdleAlign /\ IdleScan
SpecEma == InitEma /\ [][NextEma]_vars

\* --------------------------------------------- rolling references, alone
RefInputs ==
    {[model |-> m, col |-> c] :
        m \in {"3m_high"}, c \in [MonthDays -> Cells]}
      \cup {[model |-> m, col |-> c] :
               m \in {"52w_high", "52w_low"}, c \in [WeekDays -> Cells]}

\* the head of a window model: the bucket map of the column
BuildMap ==
    /\ ~refs.built
    /\ refs' = [refs EXCEPT !.built = TRUE, !.map = by_bucket(bars.model, bars.col)]
    /\ UNCHANGED <<appVars, bars, notRefs>>

\* the reference of one date of the merged closes
ApplyReference(ts) ==
    /\ refs.built
    /\ refs' = [refs EXCEPT !.date = Num(ts),
                            !.ref = reference_on(bars.model, refs.map, ts)]
    /\ UNCHANGED <<appVars, bars, notRefs>>

\* the mark table of the three-month high, as of ref_date
HighMark(ref_date) ==
    /\ refs.built
    /\ bars.model = "3m_high"
    /\ refs' = [refs EXCEPT !.ref_date = Num(ref_date),
                            !.mark = three_month_high_mark(bars.col, ref_date)]
    /\ UNCHANGED <<appVars, bars, notRefs>>

NextRefs ==
    \/ BuildMap
    \/ \E ts \in DaysOf(bars.model) : ApplyReference(ts)
    \/ \E ts \in DaysOf(bars.model) : HighMark(ts)
InitRefs ==
    /\ InitApp({{}}, {[k \in CacheKeys |-> NoFile]})
    /\ RefsStart(RefInputs)
    /\ IdleBatch /\ IdleCompute /\ IdleHistory /\ IdleEma /\ IdleBreadth /\ IdleFlags /\ IdleVolume /\ IdleNormaliser /\ IdleAlign /\ IdleScan
SpecRefs == InitRefs /\ [][NextRefs]_vars

\* ------------------------------------------ the new-high/new-low table, alone
BreadthInputs ==
    {[window_bars |-> w, ohlcv |-> [s \in BreadthSymbols |->
                                      IF s = "SET:AOT" THEN a ELSE b]] :
        w \in {1, 3}, a \in [1..4 -> Bars], b \in OtherTables}

NewHighLow ==
    /\ ~hl_breadth.done
    /\ hl_breadth' =
          [done |-> TRUE,
           df_high |-> df_high_of(market.ohlcv, market.window_bars),
           df_low |-> df_low_of(market.ohlcv, market.window_bars),
           table |-> compute_breadth_new_high_low(market.ohlcv, market.window_bars)]
    /\ UNCHANGED <<appVars, market, notBreadth>>

NextBreadth == NewHighLow
InitBreadth ==
    /\ InitApp({{}}, {[k \in CacheKeys |-> NoFile]})
    /\ BreadthStart(BreadthInputs)
    /\ IdleBatch /\ IdleCompute /\ IdleHistory /\ IdleEma /\ IdleRefs /\ IdleFlags /\ IdleVolume /\ IdleNormaliser /\ IdleAlign /\ IdleScan
SpecBreadth == InitBreadth /\ [][NextBreadth]_vars

\* ------------------------------------------------- the row of flags, alone
FlagInputs ==
    {[asof |-> a, window_bars |-> 1, df |-> t] :
        a \in {2, 4, 7},
        t \in [1..Len(FlagDays) -> {Ohlc(c, h, l) : c \in Cells, h \in Cells, l \in Cells}]}

SymbolFlags ==
    /\ ~flags.done
    /\ flags' = symbol_flags(snapshot.df, snapshot.asof, snapshot.window_bars)
    /\ UNCHANGED <<appVars, snapshot, notFlags>>

NextFlags == SymbolFlags
InitFlags ==
    /\ InitApp({{}}, {[k \in CacheKeys |-> NoFile]})
    /\ FlagsStart(FlagInputs)
    /\ IdleBatch /\ IdleCompute /\ IdleHistory /\ IdleEma /\ IdleRefs /\ IdleBreadth /\ IdleVolume /\ IdleNormaliser /\ IdleAlign /\ IdleScan
SpecFlags == InitFlags /\ [][NextFlags]_vars

\* ------------------------------------------------ volume averages, alone
ComputeVolumeAverages ==
    /\ ~averages.done
    /\ averages' = [done |-> TRUE, value |-> compute_volume_averages(volume_df)]
    /\ UNCHANGED <<appVars, volume_df, notVolume>>

NextVolume == ComputeVolumeAverages
InitVolume ==
    /\ InitApp({{}}, {[k \in CacheKeys |-> NoFile]})
    /\ VolumeStart(VolumeTables)
    /\ IdleBatch /\ IdleCompute /\ IdleHistory /\ IdleEma /\ IdleRefs /\ IdleBreadth /\ IdleFlags /\ IdleNormaliser /\ IdleAlign /\ IdleScan
SpecVolume == InitVolume /\ [][NextVolume]_vars

\* ---------------------------------------------- the symbol normaliser, alone
\* one token of up to five characters or None; two tokens of up to two; three
\* of one
SymbolLists ==
    {<<>>, <<NoneStr>>} \cup {<<t>> : t \in TokensOf(5)}
      \cup {<<t, u>> : t \in TokensOf(2), u \in TokensOf(2)}
      \cup {<<t, u, v>> : t \in TokensOf(1), u \in TokensOf(1), v \in TokensOf(1)}
NormaliserInputs ==
    {[symbols |-> l, default_exchange |-> e] :
        l \in SymbolLists, e \in {<<"S", "E", "T">>, NoneStr, <<" ", "a">>}}

NormalizeSymbols ==
    /\ ~normal.done
    /\ normal' = [done |-> TRUE,
                  out |-> normalize_symbols(raw_symbols.symbols,
                                            raw_symbols.default_exchange)]
    /\ UNCHANGED <<appVars, raw_symbols, notNormaliser>>

NextNormaliser == NormalizeSymbols
InitNormaliser ==
    /\ InitApp({{}}, {[k \in CacheKeys |-> NoFile]})
    /\ NormaliserStart(NormaliserInputs)
    /\ IdleBatch /\ IdleCompute /\ IdleHistory /\ IdleEma /\ IdleRefs /\ IdleBreadth /\ IdleFlags /\ IdleVolume /\ IdleAlign /\ IdleScan
SpecNormaliser == InitNormaliser /\ [][NextNormaliser]_vars

\* ------------------------------------------------------ _align_close, alone
AlignClose ==
    /\ ~aligned.done
    /\ aligned' = align_close_rows(raw_table)
    /\ UNCHANGED <<appVars, raw_table, notAlign>>

NextAlign == AlignClose
InitAlign ==
    /\ InitApp({{}}, {[k \in CacheKeys |-> NoFile]})
    /\ AlignStart(RawTables)
    /\ IdleBatch /\ IdleCompute /\ IdleHistory /\ IdleEma /\ IdleRefs /\ IdleBreadth /\ IdleFlags /\ IdleVolume /\ IdleNormaliser /\ IdleScan
SpecAlign == InitAlign /\ [][NextAlign]_vars

\* ----------------------------------------------------------- the scan loop
\* one pass of the loop: the clock does not run backwards
ScanIteration ==
    /\ loop.scans < MaxScans
    /\ \E t \in ScanInstants, quotes \in [ScanSymbols -> Quotes],
          results \in [ScanSymbols -> RefreshResults] :
         /\ t >= loop.now
         /\ LET r == iteration(db, loop.last_avg_refresh_day, t, quotes, results)
            IN  /\ db' = r.db
                /\ loop' = [now |-> t, scans |-> loop.scans + 1,
                            last_avg_refresh_day |-> r.local,
                            quotes |-> IF scanning(db, t) THEN quotes
                                       ELSE loop.quotes]
    /\ UNCHANGED <<appVars, notScan>>

NextScan == ScanIteration
InitScan ==
    /\ InitApp({{}}, {[k \in CacheKeys |-> NoFile]})
    /\ ScanStart({NoDatabase, [NoDatabase EXCEPT !.symbols = <<"SET:PTT">>]})
    /\ IdleBatch /\ IdleCompute /\ IdleHistory /\ IdleEma /\ IdleRefs /\ IdleBreadth /\ IdleFlags /\ IdleVolume /\ IdleNormaliser /\ IdleAlign
SpecScan == InitScan /\ [][NextScan]_vars

\* ================================================================== claims
\* what a claim says of a key, a message or a candidate list, written from
\* the claim's own words
KeyOf(s) == <<s, "D", default_bars>>
Unexpired(s) ==
    /\ disk[KeyOf(s)].kind = "payload"
    /\ now - disk[KeyOf(s)].fetched_at <= ttl_seconds
RetryableByClaim ==
    {m \in Messages :
       \E k \in {KwTimeout, KwTimedOut, KwTempor, KwConnection} :
          Contains(Lower(Chars(m)), k)}
TimeoutByClaim ==
    {m \in Messages : Contains(Lower(Chars(m)), KwTimeoutWhileFetching)}
OrderByClaim(s) ==
    LET other(a) == a # "" /\ a # s
    IN  <<s>> \o SelectSeq(SYMBOL_FALLBACKS(s), other)
\* a step of the _fetch_one invocation for s that made a client call
Attempted(s) == jobs[s].pc = "try" /\ jobs'[s] # jobs[s]

\* C1: a _fetch_one for a symbol that is not deny-listed, with refresh false
\* and an unexpired cache entry under the symbol's key, makes no client
\* call, writes nothing to the cache and returns the cached table with no
\* error
C1_Step ==
    \A s \in Symbols :
       (/\ jobs[s].pc = "start" /\ jobs'[s].pc # "start"
        /\ ~jobs[s].refresh
        /\ s \notin UNAVAILABLE_TV_SYMBOLS
        /\ Unexpired(s))
       => /\ jobs'[s].pc = "done"
          /\ jobs'[s].df = disk[KeyOf(s)].df
          /\ jobs'[s].err = NoneMsg
          /\ jobs'[s].calls = 0
          /\ jobs'[s].writes = 0
          /\ disk' = disk
C1_WarmCacheNoCalls == [][C1_Step]_vars
\* every symbol of the universe was answered from the cache
C1_Witness ==
      /\ pc = "pool"
      /\ UNAVAILABLE_TV_SYMBOLS = {}
      /\ \A s \in UniverseSet :
            /\ jobs[s].pc = "done" /\ ~jobs[s].refresh
            /\ jobs[s].reads = 1 /\ jobs[s].calls = 0 /\ jobs[s].writes = 0
            /\ jobs[s].df = TGood /\ jobs[s].err = NoneMsg

\* C2: a candidate gets at most retry_attempts client calls, so a fetch
\* makes at most retry_attempts times the number of candidates; the same
\* candidate is called again only after an error whose lower-cased message
\* holds one of the retryable keywords, any other error moves on to the
\* next candidate or ends the fetch; each call brings the fetch nearer its
\* end, so it terminates
C2_Rank(s, job) ==
    retry_attempts * (Len(OrderByClaim(s)) - job.cand)
    + (retry_attempts - job.attempt)
C2_Bounded ==
    \A s \in Symbols :
       LET job == jobs[s]
           n == Len(OrderByClaim(s))
       IN  /\ job.attempt < retry_attempts
           /\ job.calls <= retry_attempts * n
           /\ job.pc = "try" =>
                /\ job.cand \in 1..n
                /\ job.calls <= retry_attempts * (job.cand - 1) + job.attempt
C2_Step ==
    \A s \in Symbols :
       Attempted(s) =>
         LET old == jobs[s]
             new == jobs'[s]
             msg == new.resp.msg
         IN  /\ new.calls = old.calls + 1
             /\ (new.pc = "try" /\ new.cand = old.cand)
                  => /\ ~new.resp.ok /\ msg \in RetryableByClaim
                     /\ new.attempt = old.attempt + 1
             /\ (~new.resp.ok /\ msg \notin RetryableByClaim)
                  => \/ new.pc = "done"
                     \/ new.pc = "try" /\ new.cand = old.cand + 1
                        /\ new.attempt = 0
             /\ new.pc = "try" => C2_Rank(s, new) < C2_Rank(s, old)
             /\ new.pc \in {"try", "done"}
C2_BoundedRetries == [](C2_Bounded) /\ [][C2_Step]_vars
\* a fetch that used every attempt of every candidate and failed
C2_Witness ==
      \E s \in Symbols :
        /\ jobs[s].pc = "done" /\ jobs[s].df = NoTable
        /\ Len(OrderByClaim(s)) = 2
        /\ jobs[s].calls = retry_attempts * 2

\* C3: the candidates are tried in the order requested symbol first, then
\* its aliases as configured; the first client response is stored in the
\* cache under the requested symbol's key, whichever candidate gave it, and
\* returned with no error; nothing is tried after it
C3_Order ==
    \A s \in Symbols :
       jobs[s].pc = "try" =>
         /\ jobs[s].cand \in 1..Len(OrderByClaim(s))
         /\ jobs[s].candidate_symbol = OrderByClaim(s)[jobs[s].cand]
C3_Step ==
    \A s \in Symbols :
       /\ (jobs[s].pc = "start" /\ jobs'[s].pc = "try") => jobs'[s].cand = 1
       /\ Attempted(s) =>
            LET old == jobs[s]
                new == jobs'[s]
            IN  /\ new.pc = "try" => new.cand \in {old.cand, old.cand + 1}
                /\ new.resp.ok =>
                     /\ new.pc = "done"
                     /\ new.df = new.resp.df /\ new.err = NoneMsg
                     /\ disk' = [disk EXCEPT ![KeyOf(s)] =
                                   Payload(now, new.resp.df)]
                /\ ~new.resp.ok => disk' = disk
       /\ jobs[s].pc = "done" =>
            \/ jobs'[s] = jobs[s]
            \/ jobs'[s].pc \in {"none", "start"}
FailedFetch(s) ==
    jobs[s].pc = "done" /\ jobs[s].df = NoTable /\ jobs[s].calls > 0
C4_LastErrorOrUnknown ==
    \A s \in Symbols :
       FailedFetch(s) =>
         /\ ~jobs[s].resp.ok
         /\ jobs[s].err = IF jobs[s].resp.msg = MsgEmpty THEN MsgUnknown
                          ELSE jobs[s].resp.msg
\* C4 as the specification states it: the message returned is the message
\* of the last attempt made
C4_LastError ==
    \A s \in Symbols :
       FailedFetch(s) => ~jobs[s].resp.ok /\ jobs[s].err = jobs[s].resp.msg
\* the alias was tried after the requested symbol timed out three times, and
\* its error is the one returned
C4_Witness ==
      /\ FailedFetch("SET:NOVO80")
      /\ jobs["SET:NOVO80"].calls = retry_attempts + 1
      /\ jobs["SET:NOVO80"].err = MsgInvalid

\* C5: a deny-listed symbol gets the fixed error and no table without a
\* cache read or a client call, whatever refresh and the cache hold
C5_DenyListed ==
    \A s \in Symbols :
       s \in UNAVAILABLE_TV_SYMBOLS =>
         /\ jobs[s].pc \in {"none", "start", "done"}
         /\ jobs[s].reads = 0 /\ jobs[s].calls = 0 /\ jobs[s].writes = 0
         /\ jobs[s].pc = "done" =>
              /\ jobs[s].df = NoTable
              /\ jobs[s].err = "Symbol is unavailable on TradingView feed"
\* a deny-listed symbol was fetched with refresh false while the cache held
\* an unexpired table for it
C5_Witness ==
      \E s \in UNAVAILABLE_TV_SYMBOLS :
        /\ jobs[s].pc = "done" /\ ~jobs[s].refresh
        /\ Unexpired(s) /\ disk[KeyOf(s)].df = TGood

\* C6: when the pool has finished, the symbols to retry are those whose
\* recorded error holds "timeout while fetching", case ignored; each is
\* fetched once more, one at a time and with refresh forced, and no other
\* symbol is; no retry starts while the pooled pass runs; a retry that
\* gives a table whose close aligns records the data and removes the
\* error, any other retry leaves an error recorded
C6_State ==
    /\ \A s \in UniverseSet :
          /\ retried[s] <= 1
          /\ retried[s] > 0 => pc \in {"retry", "render"} /\ collected = UniverseSet
    /\ pc = "pool" => retrying = "" /\ timeout_symbols = {}
    /\ pc = "retry" =>
          /\ \A s \in Symbols : jobs[s].pc # "none" => s = retrying
          /\ \A s \in timeout_symbols : retried[s] = 0
    /\ pc = "render" => timeout_symbols = {} /\ retrying = ""
C6_Step ==
    /\ (pc = "pool" /\ pc' = "retry") =>
          timeout_symbols' =
             {s \in UniverseSet : errors[s] \in TimeoutByClaim}
    /\ (pc = "retry" /\ pc' = "retry") => timeout_symbols' \subseteq timeout_symbols
    /\ \A s \in UniverseSet :
          retried'[s] > retried[s] =>
             /\ s \in timeout_symbols /\ s \notin timeout_symbols'
             /\ retrying = "" /\ retrying' = s
             /\ jobs'[s].pc = "start" /\ jobs'[s].refresh
    /\ (retrying # "" /\ retrying' = "" /\ pc' = "retry") =>
          LET df == jobs[retrying].df
          IN  IF df # NoTable /\ "close" \in df.cols
              THEN /\ ohlcv'[retrying] = df
                   /\ closes'[retrying] = df
                   /\ errors'[retrying] = NoneMsg
              ELSE /\ errors'[retrying] # NoneMsg
                   /\ closes'[retrying] = closes[retrying]
C6_TimeoutRetry == [](C6_State) /\ [][C6_Step]_vars
\* one symbol recovered in its retry, the other timed out again, and the
\* run went on to store the bundle
C6_Witness ==
      /\ pc = "render"
      /\ \A s \in UniverseSet : retried[s] = 1
      /\ errors["SET:NOVO80"] = NoneMsg /\ closes["SET:NOVO80"] = TGood
      /\ errors["SET:PTT"] = MsgTimeout

\* C7: a run whose benchmark fetch returned an error or no table submits no
\* universe fetch, leaves the bundle and the generation as they were and
\* shows the error; once the benchmark is in, every universe symbol is
\* fetched and has its outcome recorded whatever the others did, and a
\* symbol whose data is good gets its row under the EMA model whatever the
\* others did
C7_State ==
    /\ pc = "bench" => \A s \in UniverseSet : jobs[s].pc = "none"
    /\ pc \in {"retry", "render"} =>
          /\ collected = UniverseSet
          /\ \A s \in UniverseSet : closes[s] # NoTable \/ errors[s] # NoneMsg
    /\ (pc = "idle" /\ data_bundle.present /\ rrg_model_id = "ema"
        /\ data_bundle.bench = TGood) =>
          \A s \in UniverseSet :
             data_bundle.closes[s] = TGood => rrg_shown.table[s] # NoRow
C7_Step ==
    (/\ pc = "bench" /\ pc' # "bench"
     /\ (jobs[Benchmark].err # NoneMsg \/ jobs[Benchmark].df = NoTable))
    => /\ pc' = "idle"
       /\ \A s \in Symbols : jobs'[s].pc = "none"
       /\ data_bundle' = data_bundle /\ data_gen' = data_gen
       /\ st_error' \notin {NoneMsg, MsgEmpty}
       /\ st_error' = IF jobs[Benchmark].err \in {NoneMsg, MsgEmpty}
                      THEN MsgUnknown ELSE jobs[Benchmark].err
C7_BenchmarkAborts == [](C7_State) /\ [][C7_Step]_vars
\* a fetch whose benchmark timed out ended with the error shown; the bundle
\* of the fetch before it is kept, in which one symbol failed and the other
\* has its row
C7_Witness ==
    /\ pc = "idle" /\ st_error = MsgTimeout
    /\ data_bundle.present /\ data_gen = 1
    /\ data_bundle.errors["SET:PTT"] = MsgUnavailable
    /\ rrg_shown.table["SET:NOVO80"] # NoRow

\* C8: once a run has fetched and rendered, every symbol of the universe
\* has a row in the table, a fetch error or a compute error
C8_NoSymbolLost ==
    (pc = "idle" /\ data_bundle.present) =>
       /\ rrg_shown.present
       /\ \A s \in UniverseSet :
             \/ rrg_shown.table[s] # NoRow
             \/ data_bundle.errors[s] # NoneMsg
             \/ rrg_shown.errors[s] # NoneMsg
\* a row for one symbol and a compute error for the other
C8_Witness ==
      /\ pc = "idle" /\ data_bundle.present
      /\ rrg_shown.table["SET:NOVO80"] # NoRow
      /\ data_bundle.errors["SET:PTT"] = NoneMsg
      /\ rrg_shown.errors["SET:PTT"] = MsgNotEnoughBars

\* C9: the generation advances by exactly one when a fetch's bundle is
\* stored and at no other time; every key of an in-memory cache starts with
\* a generation that was current when it was written; what a run shows is
\* what the current bundle computes to, never a table of an earlier bundle
C9_State ==
    /\ \A k \in DOMAIN rrg_cache : k[1] \in 1..data_gen
    /\ \A c \in AuxCaches : \A k \in DOMAIN aux_cache[c] : k[1] \in 1..data_gen
    /\ (pc = "idle" /\ data_bundle.present) =>
          /\ rrg_shown =
               compute_rrg_bundle(data_bundle.closes, data_bundle.bench,
                                  data_bundle.ohlcv, data_bundle.bench,
                                  rrg_model_id, mom_len(rrg_model_id))
          /\ \A c \in AuxCaches : aux_shown[c] = aux_compute(c, data_bundle)
C9_Step ==
    /\ (pc = "retry" /\ pc' = "render") => data_gen' = data_gen + 1
    /\ data_bundle' # data_bundle => data_gen' = data_gen + 1
    /\ data_gen' # data_gen =>
          data_gen' = data_gen + 1 /\ pc = "retry" /\ pc' = "render"
C9_GenerationKeys == [](C9_State) /\ [][C9_Step]_vars
\* after a second fetch the cache still holds the first fetch's table for
\* the model shown, and it differs from the one shown
C9_Witness ==
      /\ pc = "idle" /\ data_gen = 2
      /\ \E k \in DOMAIN rrg_cache :
            /\ k[1] = 1 /\ k[3] = rrg_model_id
            /\ rrg_cache[k] # rrg_shown

\* C10: get_df never raises; it misses when the key has no file, when the
\* file cannot be read back, or when the entry is older than ttl; otherwise
\* it returns the stored table, an entry exactly ttl old included
C10_Step ==
    cache_got' # cache_got =>
       LET got == cache_got'
           file == disk[got.key]
       IN  /\ ~got.raised
           /\ got.at = now
           /\ got.df = IF \/ file.kind = "none"
                          \/ file.kind = "corrupt"
                          \/ now - file.fetched_at > got.ttl
                       THEN NoTable ELSE file.df
C10_GetNeverRaises == [](~cache_got.raised) /\ [][C10_Step]_vars
\* a hit on an entry exactly ttl old
C10_Witness ==
    /\ cache_got.key \in CacheKeys
    /\ disk[cache_got.key].kind = "payload"
    /\ cache_got.ttl = ttl_seconds
    /\ cache_got.at - disk[cache_got.key].fetched_at = cache_got.ttl
    /\ cache_got.df = disk[cache_got.key].df
    /\ cache_got.df # NoTable

\* C11: after set(key, table), a get(key) with an unbounded ttl returns the
\* table of the last set on that key, the later one when there were two; a
\* get(key, ttl=0) made any positive time after the set misses
C11_Step ==
    cache_got' # cache_got =>
       LET got == cache_got'
           put == cache_put[got.key]
       IN  put # NoPut =>
              /\ got.ttl = TtlUnbounded => got.df = put.df
              /\ (got.ttl = 0 /\ got.at > put.at) => got.df = NoTable
C11_Stored ==
    \A k \in CacheKeys :
       cache_put[k] # NoPut =>
          /\ get_df(disk, k, now, TtlUnbounded) = Return(cache_put[k].df)
          /\ now > cache_put[k].at => get_df(disk, k, now, 0) = Return(NoTable)
C11_RoundTrip == [](C11_Stored) /\ [][C11_Step]_vars
\* a get with an unbounded ttl, later than the second of two sets of
\* different tables on its key, that returned the second table
C11_Witness ==
    /\ cache_got.key = cache_last.key
    /\ cache_got.key \in CacheKeys
    /\ cache_got.ttl = TtlUnbounded
    /\ cache_last.prev \notin {NoTable, cache_put[cache_got.key].df}
    /\ cache_got.at > cache_put[cache_got.key].at
    /\ cache_got.df = cache_put[cache_got.key].df

\* C12: under concurrent worker threads the cache is last-write-wins: once
\* every set on a key has returned, a get of the key returns the table of one
\* of those sets; a get made while a set is writing returns a miss or a
\* complete table some set on the key wrote or is writing, never a mix of
\* tables and never an exception; a set on one key leaves what a get of any
\* other key returns as it was
WritingOn(k) == {w \in Writers : threads[w].pc = "writing" /\ threads[w].key = k}
C12_AfterSets ==
    \A k \in RaceKeys :
       (finished[k] # {} /\ WritingOn(k) = {}) =>
          race_get(files, k) \subseteq {Return(df) : df \in finished[k]}
C12_DuringSet ==
    race_got.key \in RaceKeys =>
       /\ ~race_got.raised
       /\ race_got.df \in {NoTable} \cup finished[race_got.key]
                          \cup {threads[w].df : w \in WritingOn(race_got.key)}
C12_OtherKeys ==
    \A w \in Writers, k \in RaceKeys :
       (threads'[w] # threads[w] /\ k \in {threads[w].key, threads'[w].key}) =>
          \A k2 \in RaceKeys \ {k} : race_get(files', k2) = race_get(files, k2)
C12_LastWriteWins ==
    [](C12_AfterSets /\ C12_DuringSet) /\ [][C12_OtherKeys]_vars

\* C13: for fixed per-symbol outcomes the closes mapping, the errors mapping
\* and the ranked table (sorted by quadrant, then by distance descending) are
\* the same whatever the order in which the jobs complete, ties on quadrant
\* and distance included
SeqSet(q) == {q[i] : i \in 1..Len(q)}
\* the table of the run in which the jobs complete in the order submitted
SubmittedOrder ==
    SelectSeq(BatchUniverse, LAMBDA s : outcome[s].kind = "ok")
        \o SelectSeq(BatchUniverse, LAMBDA s : outcome[s].kind = "late")
C13_OrderIndependent ==
    batch_pc = "shown" =>
       /\ SeqSet(closes_keys) = {s \in BatchSymbols : outcome[s].kind # "err"}
       /\ SeqSet(errors_keys) = {s \in BatchSymbols : outcome[s].kind = "err"}
       /\ ranked = sort_values(SubmittedOrder, outcome)

\* what the claims on _compute_rrg_bundle say of one symbol of the bundle
Aligned(s) == merged_bars(given.closes[s], given.bench)
Usable(df) == df.cols = Columns /\ df.numeric /\ df.bars > df.lead + rrg_mom_lookback
Rejected(s, reason) ==
    /\ computed.result.table[s] = NoRow
    /\ computed.result.errors[s] = reason
HasRow(s) ==
    /\ computed.result.table[s] # NoRow
    /\ computed.result.errors[s] = NoneMsg

WindowModels == {"3m_high", "52w_high", "52w_low"}
NeedCol(model_id) == IF model_id = "52w_low" THEN "low" ELSE "high"
EmptyReferenceMap(series) == series.bars <= series.lead
C18_Case(s) ==
    /\ computed.model \in WindowModels
    /\ given.closes[s] # NoTable
    /\ Aligned(s) > 0
    /\ given.closes[s].numeric /\ given.bench.numeric
    /\ NeedCol(computed.model) \in given.ohlcv[s].cols
    /\ NeedCol(computed.model) \in given.bench.cols
    /\ EmptyReferenceMap(given.ohlcv[s]) \/ EmptyReferenceMap(given.bench)
C18_EmptyMapNotEnoughWindow ==
    \A s \in UniverseSet :
       C18_Case(s) => Rejected(s, "Not enough high-window data")
\* C18 as the specification words it: the reason says that OHLCV data is
\* missing
C18_EmptyMapMissingOhlcv ==
    \A s \in UniverseSet :
       C18_Case(s) =>
          /\ computed.result.table[s] = NoRow
          /\ computed.result.errors[s] \in
                {"Missing OHLCV high data", "Missing OHLCV low data",
                 "Missing benchmark OHLCV high data",
                 "Missing benchmark OHLCV low data", "missing OHLCV data"}
\* a symbol whose own map is empty, against a benchmark that has references
C18_Witness ==
    /\ C18_Case(Universe[1])
    /\ EmptyReferenceMap(given.ohlcv[Universe[1]])
    /\ ~EmptyReferenceMap(given.bench)
    /\ Rejected(Universe[1], "Not enough high-window data")

QuadrantByClaim(q, x, y) ==
    /\ q \in {"Leading", "Weakening", "Lagging", "Improving"}
    /\ q = "Leading" <=> (x >= 100 /\ y >= 100)
    /\ q = "Weakening" <=> (x >= 100 /\ y < 100)
    /\ q = "Lagging" <=> (x < 100 /\ y < 100)
    /\ q = "Improving" <=> (x < 100 /\ y >= 100)
C14_Quadrant ==
    /\ quadrant(100, 100) = "Leading"
    /\ \A x \in Values, y \in Values : QuadrantByClaim(quadrant(x, y), x, y)
    /\ \A i \in 1..Len(history.rows) :
          QuadrantByClaim(history.rows[i].quadrant,
                          history.rows[i].rs_ratio, history.rows[i].rs_mom)
\* a history with a row at (100, 100), stored as Leading, and a row at
\* (100, 99), stored as Weakening
C14_Witness ==
    /\ history.model \in ModelIds
    /\ \E i, j \in 1..Len(history.rows) :
          /\ history.rows[i].rs_ratio = 100 /\ history.rows[i].rs_mom = 100
          /\ history.rows[i].quadrant = "Leading"
          /\ history.rows[j].rs_ratio = 100 /\ history.rows[j].rs_mom = 99
          /\ history.rows[j].quadrant = "Weakening"

\* C15: the history each of the four models returns has one row per date
\* that survives dropna, the first among them: the first row's speed is NaN,
\* and every later row has a speed that is a number, the distance between
\* its (rs_ratio, rs_mom) and that of the row before it
DistanceSq(a, b) ==
    (a.rs_ratio - b.rs_ratio) * (a.rs_ratio - b.rs_ratio)
        + (a.rs_mom - b.rs_mom) * (a.rs_mom - b.rs_mom)
C15_FirstRowKept ==
    history.model \in ModelIds =>
       /\ Len(history.rows) = Len(points)
       /\ \A i \in 1..Len(history.rows) :
             /\ history.rows[i].rs_ratio = points[i].rs_ratio
             /\ history.rows[i].rs_mom = points[i].rs_mom
             /\ i = 1 => history.rows[i].speed_sq.nan
             /\ i > 1 =>
                   /\ ~history.rows[i].speed_sq.nan
                   /\ history.rows[i].speed_sq.v = DistanceSq(points[i], points[i - 1])
\* C15 as the specification words it: the first row is dropped, so that
\* every row of the history has a speed that is a number
C15_FirstRowDropped ==
    history.model \in ModelIds =>
       \A i \in 1..Len(history.rows) : ~history.rows[i].speed_sq.nan
\* a history of three rows, the first without a speed, the third at another
\* distance from the second than from the first
C15_Witness ==
    /\ history.model \in ModelIds
    /\ Len(history.rows) = 3
    /\ history.rows[1].speed_sq.nan
    /\ ~history.rows[3].speed_sq.nan
    /\ history.rows[3].speed_sq.v = DistanceSq(points[3], points[2])
    /\ DistanceSq(points[3], points[2]) # DistanceSq(points[3], points[1])

\* C17: for a symbol that rises in a straight line from 100 to 150 over 90
\* bars against a benchmark flat at 100, the EMA model with ratio_len 20 and
\* mom_len 10 ends on a row with rs_ratio above 100 and rs_mom below 100:
\* the final quadrant is Weakening
Scenario == Closes(100, 150, 20, 10)
FinalRow == ema_series = Scenario /\ ema.t = 90 - 1
Above100(x) == x.lo > 100 * Scale
Below100(x) == x.hi < 100 * Scale
C17_FinalWeakening ==
    FinalRow =>
       /\ Above100(ema.rs_ratio)
       /\ Below100(ema.rs_mom)
       /\ ema.quadrant = {"Weakening"}
\* C17 as the specification words it: the final row has rs_ratio above 100
\* and rs_mom above 100, that is Leading
C17_FinalLeading ==
    FinalRow =>
       /\ ~Below100(ema.rs_ratio)
       /\ ~Below100(ema.rs_mom)
       /\ "Leading" \in ema.quadrant
\* the last of the 90 bars of the scenario, the close at 150
C17_Witness ==
    /\ FinalRow
    /\ ema.rs = Exactly(150)
    /\ Above100(ema.rs_ratio)
    /\ Below100(ema.rs_mom)

\* C20: no look-ahead in the rolling reference: the 3-month-high reference of
\* a month-start bucket M is the maximum of `high` over exactly the bars with
\* M - 3 months <= timestamp < M; the 52-week high (low) reference of a
\* week-start bucket W is the maximum (minimum) over exactly the bars with
\* W - 52 weeks <= timestamp < W; a bucket whose window holds no bar has no
\* reference; and the reference applied to a date is that of the bucket that
\* contains the date
BarsIn(from, to) == {ts \in DOMAIN bars.col : ~bars.col[ts].nan /\ from <= ts /\ ts < to}
ValuesIn(from, to) == {bars.col[ts].v : ts \in BarsIn(from, to)}
Highest(S, x) == x \in S /\ \A y \in S : y <= x
Lowest(S, x) == x \in S /\ \A y \in S : x <= y
BucketByClaim(b, from) ==
    IF BarsIn(from, b) = {} THEN b \notin DOMAIN refs.map
    ELSE /\ b \in DOMAIN refs.map
         /\ IF bars.model = "52w_low"
            THEN Lowest(ValuesIn(from, b), refs.map[b])
            ELSE Highest(ValuesIn(from, b), refs.map[b])
C20_NoLookAhead ==
    refs.built =>
       /\ \A ts \in {d \in DOMAIN bars.col : ~bars.col[d].nan} :
             /\ bars.model = "3m_high" =>
                   BucketByClaim(month_start(ts), minus_months(month_start(ts), 3))
             /\ bars.model \in {"52w_high", "52w_low"} =>
                   BucketByClaim(week_start(ts), week_start(ts) - 52 * 7)
       /\ ~refs.date.nan =>
             LET b == bucket_of(bars.model, refs.date.v)
             IN  refs.ref = IF b \in DOMAIN refs.map THEN Num(refs.map[b]) ELSE NaN
       /\ ~refs.ref_date.nan =>
             LET m == month_start(refs.ref_date.v)
             IN  IF BarsIn(minus_months(m, 3), m) = {} THEN refs.mark = NoMark
                 ELSE /\ ~refs.mark.value.nan
                      /\ Highest(ValuesIn(minus_months(m, 3), m), refs.mark.value.v)
\* a date in the week that starts on day 371, given the high of the bar of
\* day 7, the first day of the window, although the bar of day 371 itself
\* and the bar of day 6, the day before the window, are higher
C20_Witness ==
    /\ bars.model = "52w_high"
    /\ refs.built
    /\ refs.date = Num(372)
    /\ bars.col[6] = Num(2)
    /\ bars.col[7] = Num(1)
    /\ bars.col[370] = NaN
    /\ bars.col[371] = Num(2)
    /\ refs.ref = Num(1)


\* C21: the breadth new-high flag of symbol s at bar d is three-valued: true
\* iff high[d] > max(high[d-window..d-1]); false iff that maximum is defined
\* and not exceeded; unknown iff fewer than `window` prior bars exist (a bar
\* without a high is no bar of the window).  Only defined flags enter the
\* per-date counts and the denominator of the percentages: an unknown flag is
\* never counted as false
WindowOf == IF market.window_bars < 2 THEN 2 ELSE market.window_bars
HighAt(s, d) == market.ohlcv[s][d].high
PriorBars(s, d) ==
    {i \in 1..Len(market.ohlcv[s]) : d - WindowOf <= i /\ i < d /\ ~HighAt(s, i).nan}
PriorMaxExceeded(s, d) ==
    /\ ~HighAt(s, d).nan
    /\ \A i \in PriorBars(s, d) : HighAt(s, d).v > HighAt(s, i).v
FlagByClaim(s, d) ==
    IF Cardinality(PriorBars(s, d)) < WindowOf THEN "unknown"
    ELSE IF PriorMaxExceeded(s, d) THEN "true" ELSE "false"
FlagName(cell) ==
    IF cell.nan THEN "unknown" ELSE IF cell.v = 1 THEN "true" ELSE "false"
HighFlag(s, d) ==
    IF s \in DOMAIN hl_breadth.df_high /\ d \in DOMAIN hl_breadth.df_high[s]
    THEN FlagName(hl_breadth.df_high[s][d]) ELSE "unknown"
Flagged(d, name) == {s \in BreadthSymbols : HighFlag(s, d) = name}
C21_ThreeValued ==
    hl_breadth.done =>
       /\ \A s \in DOMAIN hl_breadth.df_high :
             \A d \in DOMAIN hl_breadth.df_high[s] :
                HighFlag(s, d) = FlagByClaim(s, d)
       /\ \A d \in DOMAIN hl_breadth.table :
             LET row == hl_breadth.table[d]
                 defined == Flagged(d, "true") \cup Flagged(d, "false")
             IN  /\ row.new_high_count = Cardinality(Flagged(d, "true"))
                 /\ defined = {} => row.new_high_pct = NaN
                 /\ defined # {} =>
                       /\ ~row.new_high_pct.nan
                       /\ row.new_high_pct.v * Cardinality(defined)
                             = 100 * Cardinality(Flagged(d, "true"))
\* on the fourth date one symbol's flag is true and the other's is unknown
\* (a bar of its window has no high): the percentage is 100, not 50
C21_Witness ==
    /\ hl_breadth.done
    /\ market.window_bars = 3
    /\ Len(market.ohlcv["SET:PTT"]) = 4
    /\ HighAt("SET:AOT", 2) = NaN
    /\ HighFlag("SET:AOT", 4) = "unknown"
    /\ HighFlag("SET:PTT", 4) = "true"
    /\ hl_breadth.table[4].new_high_pct = Num(100)


\* C30: in the new-high/new-low breadth table, on every date new_high_pct and
\* new_low_pct each lie in [0, 100] and each equals 100 times the count of
\* symbols with that flag true divided by the number of symbols whose flag of
\* that same kind is defined on that date; new_low_pct is never above 100
\* when a symbol has a defined new-low flag and an undefined new-high flag
LowFlag(s, d) ==
    IF s \in DOMAIN hl_breadth.df_low /\ d \in DOMAIN hl_breadth.df_low[s]
    THEN FlagName(hl_breadth.df_low[s][d]) ELSE "unknown"
LowFlagged(d, name) == {s \in BreadthSymbols : LowFlag(s, d) = name}
PctByClaim(pct, true, defined) ==
    defined # {} =>
       /\ ~pct.nan
       /\ 0 <= pct.v /\ pct.v <= 100
       /\ pct.v * Cardinality(defined) = 100 * Cardinality(true)
C30_Percentages ==
    hl_breadth.done =>
       \A d \in DOMAIN hl_breadth.table :
          /\ PctByClaim(hl_breadth.table[d].new_high_pct, Flagged(d, "true"),
                        Flagged(d, "true") \cup Flagged(d, "false"))
          /\ PctByClaim(hl_breadth.table[d].new_low_pct, LowFlagged(d, "true"),
                        LowFlagged(d, "true") \cup LowFlagged(d, "false"))
\* what the table holds in that case: both symbols make a new low, one of
\* them has no new-high flag, and new_low_pct is 200
C30_LowPctAbove100 ==
    /\ hl_breadth.done
    /\ 4 \in DOMAIN hl_breadth.table
    /\ LowFlagged(4, "true") = BreadthSymbols
    /\ HighFlag("SET:AOT", 4) = "unknown"
    /\ hl_breadth.table[4].new_low_pct = Num(200)


\* C22: in the per-symbol Breadth Flag Row every flag whose comparison has a
\* missing/NaN operand is reported as unknown, never as false: above_ema20,
\* above_ema50, above_ema200, recovering, early_recovery, new_high and
\* new_low alike
Missing(operands) == \E x \in operands : x.nan
UnknownOnNaN(flag, operands) == Missing(operands) => flag = "NA"
C22_AboveEma ==
    /\ UnknownOnNaN(flags.above_ema20, {flags.last_close, flags.ema20_value})
    /\ UnknownOnNaN(flags.above_ema50, {flags.last_close, flags.ema50_value})
    /\ UnknownOnNaN(flags.above_ema200, {flags.last_close, flags.ema200_value})
C22_Between ==
    /\ UnknownOnNaN(flags.recovering,
                    {flags.ema200_value, flags.last_close, flags.ema200w_value})
    /\ UnknownOnNaN(flags.early_recovery,
                    {flags.ema50_value, flags.last_close, flags.ema200_value})
C22_Breakout ==
    /\ UnknownOnNaN(flags.new_high, {flags.high_last, flags.prev_high_max})
    /\ UnknownOnNaN(flags.new_low, {flags.low_last, flags.prev_low_min})
C22_UnknownNotFalse ==
    flags.done => C22_AboveEma /\ C22_Between /\ C22_Breakout
\* what the row holds instead: the close of the as-of day is NaN, the means
\* are defined by the closes before it, and above_ema20 is False
C22_FalseOnNaN ==
    /\ flags.done
    /\ flags.last_close = NaN
    /\ ~flags.ema20_value.nan
    /\ flags.above_ema20 = "False"
    /\ flags.recovering = "NA"


\* C23: compute_volume_averages never uses the current (latest) bar: for each
\* N in {5, 10, 20, 50}, avgN is the mean of the N most recent bars strictly
\* before the latest bar when at least N such prior bars exist, and is unknown
\* (None) otherwise; this holds for every input length, a single bar included
\* (a row without a volume is no bar)
VolumeBars == {i \in 1..Len(volume_df) : ~volume_df[i].volume.nan}
LatestTs == MaxOf({volume_df[i].ts : i \in VolumeBars})
PriorTo(ts) == {i \in VolumeBars : volume_df[i].ts < ts}
MostRecent(prior, n) ==
    {i \in prior : Cardinality({j \in prior : volume_df[j].ts > volume_df[i].ts}) < n}
RECURSIVE VolumeSum(_)
VolumeSum(S) ==
    IF S = {} THEN 0
    ELSE LET i == CHOOSE x \in S : TRUE IN volume_df[i].volume.v + VolumeSum(S \ {i})
AvgByClaim(a, n, prior) ==
    IF Cardinality(prior) >= n
    THEN LET recent == MostRecent(prior, n)
         IN  /\ Cardinality(recent) = n
             /\ ~a.none
             /\ a.n * n = a.d * VolumeSum(recent)
    ELSE a.none
C23_PriorBarsOnly ==
    averages.done =>
       LET prior == IF VolumeBars = {} THEN {} ELSE PriorTo(LatestTs)
       IN  /\ AvgByClaim(averages.value.avg5, 5, prior)
           /\ AvgByClaim(averages.value.avg10, 10, prior)
           /\ AvgByClaim(averages.value.avg20, 20, prior)
           /\ AvgByClaim(averages.value.avg50, 50, prior)
\* six bars, the latest with the large volume: avg5 is 1, the mean of the
\* five bars before it
C23_Witness ==
    /\ averages.done
    /\ Len(volume_df) = 6
    /\ VolumeBars = 1..6
    /\ volume_df[6] = [ts |-> 6, volume |-> Num(3)]
    /\ averages.value.avg5 = Avg(5, 5)
    /\ averages.value.avg10 = NoAvg


\* C24: the Symbol Normalizer never raises and its output list holds only
\* canonical symbols: every element of normalize_symbols(...) has the form
\* EXCHANGE:TICKER with both sides non-empty, upper-case and free of
\* surrounding quotes; malformed inputs (which normalize to the empty string)
\* are omitted; there are no duplicates and elements keep first-seen order
InQuotes(s) == Len(s) >= 2 /\ s[1] \in {"\"", "'"} /\ s[Len(s)] = s[1]
CanonicalSide(s) ==
    /\ s # <<>>
    /\ \A i \in 1..Len(s) : s[i] # "a"
    /\ ~InQuotes(s)
ColonAt(s, i) == i \in 1..Len(s) /\ s[i] = ":" /\ \A j \in 1..(i - 1) : s[j] # ":"
C24_Form ==
    \A k \in 1..Len(normal.out) :
       \E i \in 1..Len(normal.out[k]) :
          /\ ColonAt(normal.out[k], i)
          /\ CanonicalSide(SubSeq(normal.out[k], 1, i - 1))
          /\ CanonicalSide(SubSeq(normal.out[k], i + 1, Len(normal.out[k])))
NormalOf(i) == normalize_symbol(raw_symbols.symbols[i], raw_symbols.default_exchange)
C24_FirstSeen ==
    /\ \A j, k \in 1..Len(normal.out) : j # k => normal.out[j] # normal.out[k]
    /\ \A k \in 1..Len(normal.out) : normal.out[k] # <<>>
    /\ \A i \in 1..Len(raw_symbols.symbols) :
          NormalOf(i) # <<>> => \E k \in 1..Len(normal.out) : normal.out[k] = NormalOf(i)
    /\ \A j, k \in 1..Len(normal.out) :
          j < k =>
             \E i \in 1..Len(raw_symbols.symbols) :
                /\ NormalOf(i) = normal.out[j]
                /\ \A h \in 1..i : NormalOf(h) # normal.out[k]
C24_Canonical == normal.done => C24_Form /\ C24_FirstSeen
\* what the list holds for a token quoted twice: a ticker still in quotes
C24_QuotedTicker ==
    /\ normal.done
    /\ raw_symbols.symbols = << <<"'", "\"", "a", "\"", "'">> >>
    /\ normal.out = << <<"S", "E", "T", ":", "\"", "A", "\"">> >>


\* C25: align_close on a table with a close column returns a series with
\* strictly increasing day-truncated timestamps, exactly one entry per
\* calendar day present in the input, rows of unparseable timestamp dropped;
\* on a table without a close column it fails with a missing-column error,
\* which the orchestrator records as that symbol's error.  As the code has
\* it, each entry carries the last close of its day in row order that is not
\* NaN (NaN when the day has none)
ParsedRows == {i \in 1..Len(raw_table.rows) : ~raw_table.rows[i].ts.nat}
UtcHour(i) ==
    IF raw_table.tz = "Asia/Bangkok" THEN raw_table.rows[i].ts.hour - 7
    ELSE raw_table.rows[i].ts.hour
DayOf(i) == CHOOSE d \in -1..2 : 24 * d <= UtcHour(i) /\ UtcHour(i) < 24 * (d + 1)
RowsOfDay(d) == {i \in ParsedRows : DayOf(i) = d}
C25_Shape ==
    IF raw_table.has_close
    THEN /\ ~aligned.raised /\ aligned.in_closes /\ aligned.error = NoneMsg
         /\ \A k \in 1..(Len(aligned.close) - 1) :
               aligned.close[k].day < aligned.close[k + 1].day
         /\ {aligned.close[k].day : k \in 1..Len(aligned.close)}
               = {DayOf(i) : i \in ParsedRows}
    ELSE /\ aligned.raised /\ ~aligned.in_closes
         /\ aligned.error = "Missing 'close' column"
LastInRowOrder(d) ==
    LET held == {i \in RowsOfDay(d) : ~raw_table.rows[i].close.nan}
    IN  IF held = {} THEN NaN
        ELSE raw_table.rows[CHOOSE i \in held : \A j \in held : j <= i].close
LatestObservation(d) ==
    LET held == {i \in RowsOfDay(d) : ~raw_table.rows[i].close.nan}
        late == {i \in held : \A j \in held : UtcHour(j) <= UtcHour(i)}
    IN  IF held = {} THEN NaN
        ELSE raw_table.rows[CHOOSE i \in late : \A j \in late : j <= i].close
Forced(s) == jobs[s].refresh /\ jobs[s].pc # "none"
C26_Entered(s) ==
    jobs[s].pc = "start" /\ jobs'[s].pc # "start" /\ jobs[s].refresh
    /\ s \notin UNAVAILABLE_TV_SYMBOLS
      => jobs'[s].pc = "try" /\ jobs'[s].reads = 0 /\ disk' = disk
C26_Stored(s) ==
    jobs[s].pc = "try" /\ jobs'[s].pc = "done" /\ jobs'[s].err = NoneMsg
      => /\ jobs'[s].calls = jobs[s].calls + 1
         /\ disk'[KeyOf(s)] = Payload(now, jobs'[s].df)
C26_Hit(s) ==
    jobs[s].pc = "start" /\ jobs'[s].pc = "done" /\ jobs'[s].df # NoTable
      => /\ ~jobs[s].refresh
         /\ jobs'[s].df = disk[KeyOf(s)].df
         /\ disk' = disk
C26_Overwritten(s) ==
    disk'[KeyOf(s)] # disk[KeyOf(s)]
      => jobs[s].pc = "try" /\ jobs'[s].pc = "done" /\ jobs'[s].err = NoneMsg
C26_Step ==
    \A s \in Symbols :
       C26_Entered(s) /\ C26_Stored(s) /\ C26_Hit(s) /\ C26_Overwritten(s)
C26_ForcedRefresh ==
    /\ [](\A s \in Symbols : Forced(s) => jobs[s].reads = 0)
    /\ [](\A s \in Symbols :
            Forced(s) /\ jobs[s].pc = "done" /\ jobs[s].df # NoTable
              => jobs[s].calls >= 1 /\ jobs[s].writes = 1)
    /\ [][C26_Step]_vars
\* a non-forced fetch of the benchmark hit a table that only a forced fetch
\* can have stored: the entry was written while the first entries, this
\* key's among them, were unexpired
C26_Witness ==
    /\ jobs[Benchmark].pc = "done" /\ ~jobs[Benchmark].refresh
    /\ jobs[Benchmark].reads = 1 /\ jobs[Benchmark].calls = 0
    /\ jobs[Benchmark].df = TNoClose
    /\ disk[KeyOf(Benchmark)].kind = "payload"
    /\ disk[KeyOf(Benchmark)].fetched_at <= ttl_seconds
    /\ disk[KeyOf(Benchmark)].df = TNoClose
    /\ \E s \in UniverseSet : disk[KeyOf(s)] = Payload(0, TGood)


\* C27: a fetch that ends in an error, of a deny-listed symbol or with every
\* candidate and attempt exhausted, leaves the disk cache as it was: no step
\* of it writes or removes an entry, so what the key held before, expired or
\* not, is still there; an entry changes only when the client has answered
\* with a table
EndedInError(job) == job.pc = "done" /\ job.err # NoneMsg
Answered(job) == job.resp.ok /\ job.pc = "done" /\ job.err = NoneMsg
C27_Step ==
    /\ \A s \in Symbols :
          /\ jobs'[s] # jobs[s] /\ ~Answered(jobs'[s]) => disk' = disk
          /\ ~EndedInError(jobs[s]) /\ EndedInError(jobs'[s]) => disk' = disk
    /\ disk' # disk =>
         \E s \in Symbols :
            /\ jobs[s].pc = "try" /\ Answered(jobs'[s])
            /\ jobs'[s].calls = jobs[s].calls + 1
            /\ disk' = [disk EXCEPT ![KeyOf(s)] = Payload(now, jobs'[s].df)]
Scanned(s) ==
    /\ loop'.scans = loop.scans + 1
    /\ s \in {db.symbols[i] : i \in 1..Len(db.symbols)}
    /\ is_market_open(loop'.now)
    /\ loop'.quotes[s].present /\ db'.avg_cache[s].present
InBreak(volume, avg5) ==
    volume.known /\ avg5.known /\ avg5.v > 0 /\ volume.v > avg5.v
StoredBreak(s) ==
    db.snapshot_latest[s].present /\ db.snapshot_latest[s].break5 = 1
NewEvents == SubSeq(db'.events, Len(db.events) + 1, Len(db'.events))
NewEventsOf(s) == SelectSeq(NewEvents, LAMBDA e : e.symbol = s)
C28_Step ==
    /\ SubSeq(db'.events, 1, Len(db.events)) = db.events
    /\ \A s \in ScanSymbols :
          LET status == InBreak(loop'.quotes[s].volume, db'.avg_cache[s].avg5)
              rising == Scanned(s) /\ status /\ ~StoredBreak(s)
          IN  /\ NewEventsOf(s) =
                   IF rising
                   THEN <<[ts |-> loop'.now, symbol |-> s,
                           event_type |-> "break5"]>>
                   ELSE <<>>
              /\ IF Scanned(s)
                 THEN /\ db'.snapshot_latest[s].present
                      /\ db'.snapshot_latest[s].scanned_at = loop'.now
                      /\ db'.snapshot_latest[s].break5 = (IF status THEN 1 ELSE 0)
                 ELSE db'.snapshot_latest[s] = db.snapshot_latest[s]
C28_StoredStatus ==
    \A s \in ScanSymbols :
       LET row == db.snapshot_latest[s]
       IN  /\ row.break5 \in {0, 1}
           /\ row.break5 = 1 =>
                /\ row.present
                /\ row.vol_today.known /\ row.avg5.known
                /\ row.avg5.v > 0 /\ row.vol_today.v > row.avg5.v
                /\ \E i \in 1..Len(db.events) :
                      db.events[i].symbol = s /\ db.events[i].ts <= row.scanned_at
C28_RisingEdge == []C28_StoredStatus /\ [][C28_Step]_vars
\* a symbol rose into break in one scan and was still in break at a later
\* scan: it has one event, older than its snapshot
C28_Witness ==
    \E s \in ScanSymbols :
       /\ db.snapshot_latest[s].break5 = 1
       /\ Len(db.events) = 1
       /\ db.events[1].symbol = s
       /\ db.events[1].ts < db.snapshot_latest[s].scanned_at
       /\ loop.now = db.snapshot_latest[s].scanned_at


\* C29: over the passes of the scan loop no two hourly reports have the same
\* clock hour and no two daily reports the same calendar day; a pass inserts
\* an hourly report only with the market open and an hour differing from the
\* last one stored, a daily report only on a weekday at or after the close
\* time and on a day differing from the last one stored, and stores the new
\* key in the same pass
ClockHour(dt) == dt \div HMS(1, 0, 0)
CalendarDay(dt) == dt \div HMS(24, 0, 0)
ReportsOf(reports, kind) == SelectSeq(reports, LAMBDA r : r.kind = kind)
OnePerPeriod(reports) ==
    \A i, j \in 1..Len(reports) :
       i < j =>
         /\ reports[i].period_start # reports[j].period_start
         /\ reports[i].generated_at <= reports[j].generated_at
C29_OnePerKey ==
    LET hourly == ReportsOf(db.reports, "hourly")
        daily == ReportsOf(db.reports, "daily")
    IN  /\ OnePerPeriod(hourly) /\ OnePerPeriod(daily)
        /\ \A i \in 1..Len(hourly) :
              hourly[i].period_start = ClockHour(hourly[i].generated_at) * HMS(1, 0, 0)
        /\ \A i \in 1..Len(daily) :
              daily[i].period_start = CalendarDay(daily[i].generated_at)
        /\ \A i, j \in 1..Len(hourly) :
              i # j => ClockHour(hourly[i].generated_at) # ClockHour(hourly[j].generated_at)
        /\ \A i, j \in 1..Len(daily) :
              i # j => CalendarDay(daily[i].generated_at) # CalendarDay(daily[j].generated_at)
C29_Step ==
    LET new == SubSeq(db'.reports, Len(db.reports) + 1, Len(db'.reports))
        hourly == ReportsOf(new, "hourly")
        daily == ReportsOf(new, "daily")
        t == loop'.now
    IN  /\ SubSeq(db'.reports, 1, Len(db.reports)) = db.reports
        /\ Len(hourly) <= 1 /\ Len(daily) <= 1
        /\ \A i \in 1..Len(new) : new[i].generated_at = t
        /\ IF hourly # <<>>
           THEN /\ is_market_open(t)
                /\ db.state["last_hourly_key"] # Value(ClockHour(t))
                /\ db'.state["last_hourly_key"] = Value(ClockHour(t))
           ELSE db'.state["last_hourly_key"] = db.state["last_hourly_key"]
        /\ IF daily # <<>>
           THEN /\ (CalendarDay(t) % 7) \in 0..4
                /\ t % HMS(24, 0, 0) >= daily_close_report_time
                /\ db.state["last_daily_day"] # Value(CalendarDay(t))
                /\ db'.state["last_daily_day"] = Value(CalendarDay(t))
           ELSE db'.state["last_daily_day"] = db.state["last_daily_day"]
C29_OneReportPerKey == []C29_OnePerKey /\ [][C29_Step]_vars
\* four passes, on the Friday at 16:30:00 and on the Monday at 10:00:00 and
\* 10:59:59 among them, left three reports: the second pass of the Monday's
\* hour and one more pass inserted none
C29_Witness ==
    /\ loop.scans = 4
    /\ loop.now = 7 * HMS(24, 0, 0) + HMS(10, 59, 59)
    /\ Len(db.reports) = 3
    /\ db.reports[1].kind = "hourly"
    /\ db.reports[1].generated_at = 4 * HMS(24, 0, 0) + HMS(16, 30, 0)
    /\ db.reports[2].kind = "daily"
    /\ db.reports[2].generated_at = 4 * HMS(24, 0, 0) + HMS(16, 30, 0)
    /\ db.reports[3].kind = "hourly"
    /\ db.reports[3].generated_at = 7 * HMS(24, 0, 0) + HMS(10, 0, 0)

====
